---------------------------- MODULE Spec2Model ----------------------------
(***************************************************************************)
(* A model of the strideiq coaching backend: the recommendation store and  *)
(* its REST and agent-tool operations, the compliance matcher, the         *)
(* recommendation generator (blocking and streaming) with its fallback,    *)
(* the injury tools, the coaching chat (blocking and streaming) with its   *)
(* sessions and threads, and the batch sync of health data.                *)
(*                                                                         *)
(* Optional (nullable) values are encoded as sequences of length <= 1:     *)
(* None is <<>> and Some(x) is <<x>>.  Free text is a sequence of tokens.  *)
(***************************************************************************)
EXTENDS Integers, Sequences, FiniteSets, TLC

VARIABLES
    now,        \* datetime.utcnow(), a logical clock
    profiles,   \* user_profiles rows: user id -> Option(profile)
    health,     \* per user: the VO2, heart-rate and weight readings, newest first
    recs,       \* coaching_recommendations rows; a row's id is its index
    workouts,   \* workout_sessions rows; a row's id is its index
    injuries,   \* user_injuries rows; a row's id is its index
    chk,        \* the coroutine of check_recommendation_compliance
    stream,     \* the generator of stream_recommendations
    events,     \* the SSE events the stream has emitted, in order
    chat,       \* coaching_sessions rows, the agent's threads, the chat turns
    synced,     \* heart-rate, step and VO2 sample rows, devices, ingest batches
    sse,        \* the runs of the chat stream and the events each has emitted
    lastOp      \* the last operation called and what it answered

vars == <<now, profiles, health, recs, workouts, injuries, chk, stream, events, chat, synced,
          sse, lastOp>>

----------------------------------------------------------------------------
(* Bounds of the model *)

MaxNow == 1
MaxRecs == 1
MaxPlans == 2
MaxWeights == 2
MaxUpdates == 1
MaxWorkouts == 1
MaxInjuries == 1
MaxChunks == 2
MaxInjuryUpdates == 2
MaxSessions == 2
MaxTurns == 3

----------------------------------------------------------------------------
(* Basic values *)

Users == {"u1", "u2"}
NoUser == "none"

None == <<>>
Some(x) == <<x>>
IsSome(o) == o # <<>>
Val(o) == o[1]

\* the clock counts days: a datetime's date is the datetime
Day(t) == t

Min2(a, b) == IF a <= b THEN a ELSE b

Abs(x) == IF x < 0 THEN -x ELSE x

PENDING == "pending"
COMPLETED == "completed"
SKIPPED == "skipped"
PARTIAL == "partial"

RecommendationStatus == {PENDING, COMPLETED, SKIPPED, PARTIAL}

PlanStatus == {COMPLETED, SKIPPED, PARTIAL}

----------------------------------------------------------------------------
(* Free text: a sequence of tokens.  W(s) is a word, N(n) a number,        *)
(* R(lo, hi) a "lo-hi" range.                                              *)

W(s) == [w |-> s]
N(n) == [n |-> n]
R(lo, hi) == [lo |-> lo, hi |-> hi]

Zone(n) == [zone |-> n]

IsWord(t) == DOMAIN t = {"w"}
IsNum(t) == DOMAIN t = {"n"}
IsRange(t) == DOMAIN t = {"lo", "hi"}

Lower(s) ==
    CASE s = "Run" -> "run"
      [] s = "Walk" -> "walk"
      [] s = "Rest" -> "rest"
      [] s = "HIIT" -> "hiit"
      [] s = "Zone" -> "zone"
      [] s = "Min" -> "min"
      [] s = "BPM" -> "bpm"
      [] s = "Bpm" -> "bpm"
      [] s = "Completed" -> "completed"
      [] OTHER -> s

HasWordIn(text, S) ==
    \E i \in 1..Len(text) : IsWord(text[i]) /\ Lower(text[i].w) \in S

WorkoutPatterns ==
    << [type |-> "run",      words |-> {"run", "jog", "running", "jogging"}],
       [type |-> "walk",     words |-> {"walk", "walking"}],
       [type |-> "cycling",  words |-> {"cycl", "bike", "biking"}],
       [type |-> "rest",     words |-> {"rest", "recovery"}],
       [type |-> "interval", words |-> {"interval", "hiit"}] >>

RECURSIVE FirstPattern(_, _)
FirstPattern(text, k) ==
    IF k > Len(WorkoutPatterns) THEN None
    ELSE IF HasWordIn(text, WorkoutPatterns[k].words) THEN Some(WorkoutPatterns[k].type)
    ELSE FirstPattern(text, k + 1)

DurationAt(text) ==
    {i \in 1..(Len(text) - 1) :
        IsNum(text[i]) /\ IsWord(text[i + 1])
        /\ Lower(text[i + 1].w) \in {"min", "minute", "minutes"}}

ZoneAt(text) ==
    {i \in 1..(Len(text) - 1) :
        IsWord(text[i]) /\ Lower(text[i].w) = "zone" /\ IsNum(text[i + 1])}

RangeAt(text) ==
    {i \in 1..(Len(text) - 1) :
        IsRange(text[i]) /\ IsWord(text[i + 1]) /\ text[i + 1].w \in {"BPM", "bpm"}}

MinOf(S) == CHOOSE i \in S : \A j \in S : i <= j

NoDetails ==
    [workout_type |-> None, duration_minutes |-> None,
     intensity_zone |-> None, heart_rate_range |-> None]

ExtractWorkoutDetails(training_text) ==
    IF training_text = None \/ Val(training_text) = <<>> THEN NoDetails
    ELSE LET text == Val(training_text) IN
        [workout_type |-> FirstPattern(text, 1),
         duration_minutes |->
            IF DurationAt(text) = {} THEN None ELSE Some(text[MinOf(DurationAt(text))].n),
         intensity_zone |->
            IF ZoneAt(text) = {} THEN None ELSE Some(Zone(text[MinOf(ZoneAt(text)) + 1].n)),
         heart_rate_range |->
            IF RangeAt(text) = {} THEN None ELSE Some(text[MinOf(RangeAt(text))])]

----------------------------------------------------------------------------
(* Context aggregation and trends *)

Take3(s) == SubSeq(s, 1, Min2(3, Len(s)))

Direction3(change, up, down) ==
    IF change > 0 THEN up ELSE IF change < 0 THEN down ELSE "stable"

\* change_percent in tenths of a percent, truncated; 0 when oldest is not positive
ChangePercent(change, oldest) ==
    IF oldest > 0
    THEN (IF change < 0 THEN -1 ELSE 1) * ((Abs(change) * 1000) \div oldest)
    ELSE 0

\* the attribute _calculate_trends reads from a BodyWeightMeasurement row
WeightAttribute == "weight_lbs"

\* the columns of BodyWeightMeasurement
BodyWeightColumns == {"id", "user_id", "value_lbs", "measured_at", "source", "notes"}

\* [raised, trends]: raised when an attribute read fails
CalculateTrends(vo2_data, hr_data, weight_history) ==
    [raised |-> Len(weight_history) >= 2 /\ WeightAttribute \notin BodyWeightColumns,
     trends |->
        [vo2_max |->
            IF Len(vo2_data) >= 2
            THEN LET latest == vo2_data[1]
                     oldest == vo2_data[Len(vo2_data)]
                 IN Some([latest |-> latest, oldest |-> oldest, change |-> latest - oldest,
                          change_percent |-> ChangePercent(latest - oldest, oldest),
                          direction |-> Direction3(latest - oldest, "improving", "declining")])
            ELSE None,
         heart_rate |->
            IF Len(hr_data) >= 2
            THEN LET latest == hr_data[1]
                     oldest == hr_data[Len(hr_data)]
                 IN Some([latest |-> latest, oldest |-> oldest, change |-> latest - oldest,
                          direction |-> Direction3(latest - oldest, "increasing", "decreasing")])
            ELSE None,
         weight |->
            IF Len(weight_history) >= 2
            THEN LET latest == weight_history[1]
                     oldest == weight_history[Len(weight_history)]
                 IN Some([latest |-> latest, oldest |-> oldest, change |-> latest - oldest,
                          direction |-> Direction3(latest - oldest, "increasing", "decreasing")])
            ELSE None]]

WorkoutsToday(u) ==
    {i \in 1..Len(workouts) :
        workouts[i].user_id = u /\ Day(workouts[i].start_time) = Day(now)}

GetTodayStats(u) ==
    [workout_count |-> Cardinality(WorkoutsToday(u)),
     vo2_max |-> IF health[u].vo2 = <<>> THEN None ELSE Some(health[u].vo2[1])]

NoContext ==
    [profile |-> None, vo2_data |-> <<>>, heart_rate_data |-> <<>>, weight_history |-> <<>>,
     has_trends |-> FALSE,
     trends |-> [vo2_max |-> None, heart_rate |-> None, weight |-> None],
     today_stats |-> [workout_count |-> 0, vo2_max |-> None]]

\* [raised, context]
GatherUserContext(u) ==
    LET t == CalculateTrends(Take3(health[u].vo2), Take3(health[u].hr), Take3(health[u].weight))
    IN  IF t.raised THEN [raised |-> TRUE, context |-> NoContext]
        ELSE [raised |-> FALSE,
              context |->
                [profile |-> profiles[u],
                 vo2_data |-> Take3(health[u].vo2),
                 heart_rate_data |-> Take3(health[u].hr),
                 weight_history |-> Take3(health[u].weight),
                 has_trends |-> TRUE,
                 trends |-> t.trends,
                 today_stats |-> GetTodayStats(u)]]

----------------------------------------------------------------------------
(* The generator: model call, fallback, conversion to the response array *)

Draft(t, n, r, s) ==
    [todays_training |-> t, nutrition_fueling |-> n, recovery_protocol |-> r, reasoning |-> s]

Fields == <<"todays_training", "nutrition_fueling", "recovery_protocol", "reasoning">>

Titles == <<"Today's Workout", "Nutrition & Fueling", "Recovery Protocol", "Coach's Analysis">>

\* a text field is truthy when it is present and not the empty string
Truthy(o) == IsSome(o) /\ Val(o) # <<>>

NutritionText == <<W("Pre-workout"), W("Water"), N(30), W("min"), W("before")>>
RecoveryText == <<W("Sleep"), R(7, 8), W("hours")>>

GetFallbackRecommendations ==
    Draft(Some(<<W("Hey"), W("Athlete"), W("Today"), N(30), W("min"), W("easy"), W("run"),
                 W("Zone"), N(2)>>),
          Some(NutritionText), Some(RecoveryText),
          Some(<<W("Building"), W("aerobic"), W("base")>>))

DefaultAge == 30

\* the age _get_fallback_insights computes the zones from: Option(int)
FallbackAge(profile) == IF IsSome(profile) THEN Val(profile).age ELSE Some(DefaultAge)

\* [raised, insights]: raised when 220 - age is evaluated on a null age
GetFallbackInsights(context) ==
    LET profile == context.profile
        first_name == IF IsSome(profile) /\ IsSome(Val(profile).first_name)
                      THEN Val(Val(profile).first_name) ELSE "Athlete"
        workouts_n == context.today_stats.workout_count
        vo2 == context.today_stats.vo2_max
        vo2ok == IsSome(vo2) /\ Val(vo2) # 0
        vt == context.trends.vo2_max
        trend_text ==
            IF vo2ok /\ IsSome(vt) /\ Abs(Val(vt).change_percent) >= 10
            THEN <<W(IF Val(vt).change_percent > 0 THEN "improving" ELSE "declining"),
                   N(Val(vt).change_percent)>>
            ELSE <<W("stable")>>
        first_line == <<W("Hey"), W(first_name), N(workouts_n), W("workouts"), W("VO2"),
                        IF vo2ok THEN N(Val(vo2)) ELSE W("N/A")>> \o trend_text
        age == FallbackAge(profile)
    IN  IF age = None THEN [raised |-> TRUE, insights |-> Draft(None, None, None, None)]
        ELSE LET max_hr == 220 - Val(age)
                 zone1_low == (max_hr * 5) \div 10
                 zone1_high == (max_hr * 6) \div 10
                 reasoning ==
                    IF IsSome(context.trends.vo2_max)
                    THEN <<W("VO2"), W(Val(context.trends.vo2_max).direction)>>
                    ELSE IF IsSome(context.trends.heart_rate)
                    THEN <<W("Resting"), W("HR"), W(Val(context.trends.heart_rate).direction)>>
                    ELSE <<W("Building"), W("aerobic"), W("base")>>
             IN [raised |-> FALSE,
                 insights |->
                    Draft(Some(first_line \o <<W("Today"), N(30), W("min"), W("easy"),
                                               W("walk"), W("Zone"), N(1),
                                               R(zone1_low, zone1_high), W("BPM")>>),
                          Some(NutritionText), Some(RecoveryText), Some(reasoning))]

\* what the model provider answers: a parsed four-field object, or a failure
\* (timeout, quota error, output that json.loads rejects)
ProviderFail == [ok |-> FALSE, draft |-> Draft(None, None, None, None)]
ProviderOk(d) == [ok |-> TRUE, draft |-> d]

\* [raised, success, insights]
GenerateAiInsights(context, provider) ==
    IF provider.ok
    THEN [raised |-> FALSE, success |-> TRUE, insights |-> provider.draft]
    ELSE LET fb == GetFallbackInsights(context)
         IN [raised |-> fb.raised, success |-> FALSE, insights |-> fb.insights]

RECURSIVE ConvertFrom(_, _)
ConvertFrom(insights, k) ==
    IF k > Len(Fields) THEN <<>>
    ELSE (IF Truthy(insights[Fields[k]])
          THEN <<[title |-> Titles[k], description |-> Val(insights[Fields[k]])]>>
          ELSE <<>>) \o ConvertFrom(insights, k + 1)

ConvertInsightsToRecommendations(insights) ==
    IF ConvertFrom(insights, 1) = <<>>
    THEN <<[title |-> "Daily Workout", description |-> <<W("Keep"), W("training")>>]>>
    ELSE ConvertFrom(insights, 1)


----------------------------------------------------------------------------
(* The recommendation store *)

NewRecommendation(user_id, details, insights, status) ==
    [user_id |-> user_id,
     recommendation_date |-> now,
     workout_type |-> details.workout_type,
     duration_minutes |-> details.duration_minutes,
     intensity_zone |-> details.intensity_zone,
     heart_rate_range |-> details.heart_rate_range,
     todays_training |-> insights.todays_training,
     nutrition_fueling |-> insights.nutrition_fueling,
     recovery_protocol |-> insights.recovery_protocol,
     reasoning |-> insights.reasoning,
     status |-> status,
     actual_workout_id |-> None,
     compliance_notes |-> None,
     updated_at |-> now]

\* the status a new row is created with
CreatedStatus == PENDING

\* [recs, saved]: the table after _save_recommendation and the saved row's id
SaveRecommendation(rs, user_id, insights, commitOk) ==
    IF commitOk
    THEN [recs |-> Append(rs, NewRecommendation(user_id,
                        ExtractWorkoutDetails(insights.todays_training), insights,
                        CreatedStatus)),
          saved |-> Some(Len(rs) + 1)]
    ELSE [recs |-> rs, saved |-> None]

\* the lookup by id alone, without the owner condition
FindPlanAnyOwner(rs, plan_id, user_id) ==
    IF plan_id \in 1..Len(rs) THEN Some(plan_id) ELSE None

\* select ... where id == plan_id and user_id == user_id; scalar_one_or_none
FindPlan(rs, plan_id, user_id) ==
    IF plan_id \in 1..Len(rs) /\ rs[plan_id].user_id = user_id THEN Some(plan_id) ELSE None

\* what the last call was and what it answered; target is the id it named, 0 for none
Op(kind, caller, target, result, body) ==
    [kind |-> kind, caller |-> caller, target |-> target, result |-> result, body |-> body]

NoBody == [status |-> "none", recommendations |-> <<>>, returned |-> {}, updated_fields |-> <<>>]

Body(status, recommendations, returned, updated_fields) ==
    [status |-> status, recommendations |-> recommendations, returned |-> returned,
     updated_fields |-> updated_fields]

\* the service's answer: [recs, success, recommendations, saved]
GenerateComprehensiveRecommendations(u, provider, commitOk) ==
    LET g == GatherUserContext(u)
        failed == [recs |-> recs, success |-> FALSE, saved |-> None,
                   recommendations |->
                        ConvertInsightsToRecommendations(GetFallbackRecommendations)]
    IN  IF g.raised THEN failed
        ELSE IF g.context.profile = None
        THEN [recs |-> recs, success |-> FALSE, saved |-> None, recommendations |-> <<>>]
        ELSE LET ai == GenerateAiInsights(g.context, provider)
             IN IF ai.raised THEN failed
                ELSE LET sv == SaveRecommendation(recs, u, ai.insights, commitOk)
                     IN [recs |-> sv.recs, success |-> TRUE, saved |-> sv.saved,
                         recommendations |-> ConvertInsightsToRecommendations(ai.insights)]

\* POST /recommendations/generate: the controller around the service
GenerateRecommendations(u, provider, commitOk) ==
    /\ LET r == GenerateComprehensiveRecommendations(u, provider, commitOk)
       IN /\ recs' = r.recs
          /\ lastOp' = Op("generate", u, 0, "ok",
                          Body(IF r.success THEN "success" ELSE "partial_success",
                               r.recommendations, {}, <<>>))
    /\ UNCHANGED <<now, profiles, health, workouts, injuries, chk, stream, events, chat, synced, sse>>

\* PATCH /recommendations/{id}/status
UpdatePlanStatus(caller, recommendation_id, status, notes) ==
    /\ LET found == FindPlan(recs, recommendation_id, caller)
       IN IF found = None
          THEN /\ recs' = recs
               /\ lastOp' = Op("update_plan_status", caller, recommendation_id,
                               "not_found", NoBody)
          ELSE /\ recs' = [recs EXCEPT ![recommendation_id] =
                             [@ EXCEPT !.status = status,
                                       !.updated_at = now,
                                       !.compliance_notes =
                                            IF Truthy(notes) THEN notes ELSE @]]
               /\ lastOp' = Op("update_plan_status", caller, recommendation_id, "ok",
                               Body(status, <<>>, {}, <<>>))
    /\ UNCHANGED <<now, profiles, health, workouts, injuries, chk, stream, events, chat, synced, sse>>


----------------------------------------------------------------------------
(* The agent tools on plans.  cfg is config["configurable"]["user_id"],     *)
(* NoUser when the configuration binds none.                               *)

\* create_coaching_plan
CreateCoachingPlan(cfg, a) ==
    /\ IF cfg = NoUser
       THEN /\ recs' = recs
            /\ lastOp' = Op("create_coaching_plan", cfg, 0, "error", NoBody)
       ELSE /\ recs' = Append(recs,
                    NewRecommendation(cfg,
                        [workout_type |-> Some(a.workout_type),
                         duration_minutes |-> Some(a.duration_minutes),
                         intensity_zone |-> a.intensity_zone,
                         heart_rate_range |-> a.heart_rate_range],
                        Draft(Some(a.todays_training), a.nutrition_fueling,
                              a.recovery_protocol, a.reasoning),
                        CreatedStatus))
            /\ lastOp' = Op("create_coaching_plan", cfg, 0, "ok", NoBody)
    /\ UNCHANGED <<now, profiles, health, workouts, injuries, chk, stream, events, chat, synced, sse>>

UpdatableFields ==
    <<"todays_training", "workout_type", "duration_minutes", "intensity_zone",
      "heart_rate_range", "nutrition_fueling", "recovery_protocol", "reasoning">>

ValidStatuses == {"pending", "completed", "skipped", "partial"}

\* the assignments without the "is not None" tests
RECURSIVE AssignAllFields(_, _, _)
AssignAllFields(row, a, k) ==
    IF k = 0 THEN row
    ELSE [AssignAllFields(row, a, k - 1) EXCEPT ![UpdatableFields[k]] = a[UpdatableFields[k]]]

\* the row after the "if x is not None" assignments up to field k
RECURSIVE AssignFields(_, _, _)
AssignFields(row, a, k) ==
    IF k = 0 THEN row
    ELSE LET prev == AssignFields(row, a, k - 1)
             f == UpdatableFields[k]
         IN IF IsSome(a[f]) THEN [prev EXCEPT ![f] = a[f]] ELSE prev

RECURSIVE SuppliedFields(_, _)
SuppliedFields(a, k) ==
    IF k > Len(UpdatableFields) THEN <<>>
    ELSE (IF IsSome(a[UpdatableFields[k]]) THEN <<UpdatableFields[k]>> ELSE <<>>)
         \o SuppliedFields(a, k + 1)

\* the status stored without the test against the valid statuses
AcceptAnyStatus(status) == Some(Lower(status))

\* the status the tool stores for a supplied status: Option, None when invalid
AcceptedStatus(status) ==
    IF Lower(status) \in ValidStatuses THEN Some(Lower(status)) ELSE None

\* update_coaching_plan
UpdateCoachingPlan(cfg, plan_id, a) ==
    /\ IF cfg = NoUser
       THEN /\ recs' = recs
            /\ lastOp' = Op("update_coaching_plan", cfg, plan_id, "error", NoBody)
       ELSE LET found == FindPlan(recs, plan_id, cfg)
            IN IF found = None
               THEN /\ recs' = recs
                    /\ lastOp' = Op("update_coaching_plan", cfg, plan_id, "not_found", NoBody)
               ELSE IF IsSome(a.status) /\ AcceptedStatus(Val(a.status)) = None
               THEN /\ recs' = recs
                    /\ lastOp' = Op("update_coaching_plan", cfg, plan_id, "invalid_status",
                                    NoBody)
               ELSE LET row == AssignFields(recs[plan_id], a, Len(UpdatableFields))
                        row2 == IF IsSome(a.status)
                                THEN [row EXCEPT !.status = Val(AcceptedStatus(Val(a.status)))]
                                ELSE row
                    IN /\ recs' = [recs EXCEPT ![plan_id] = [row2 EXCEPT !.updated_at = now]]
                       /\ lastOp' = Op("update_coaching_plan", cfg, plan_id, "ok",
                                       Body(row2.status, <<>>, {},
                                            SuppliedFields(a, 1) \o
                                            (IF IsSome(a.status) THEN <<"status">> ELSE <<>>)))
    /\ UNCHANGED <<now, profiles, health, workouts, injuries, chk, stream, events, chat, synced, sse>>

\* a row an operation returned to its caller
Row(table, id, owner) == [t |-> table, id |-> id, owner |-> owner]

\* the rows get_previous_plans selects: the user's, not older than the cutoff
PreviousPlans(rs, user_id, days) ==
    {i \in 1..Len(rs) :
        rs[i].user_id = user_id /\ rs[i].recommendation_date >= now - days}

\* get_previous_plans
GetPreviousPlans(cfg, days) ==
    /\ lastOp' = IF cfg = NoUser
                 THEN Op("get_previous_plans", cfg, 0, "error", NoBody)
                 ELSE Op("get_previous_plans", cfg, 0, "ok",
                         Body("none", <<>>,
                              {Row("rec", i, recs[i].user_id) :
                                    i \in PreviousPlans(recs, cfg, days)}, <<>>))
    /\ UNCHANGED <<now, profiles, health, recs, workouts, injuries, chk, stream, events, chat, synced, sse>>


----------------------------------------------------------------------------
(* The compliance matcher *)

\* a string as its characters, for the substring test
Chars(s) ==
    CASE s = "" -> <<>>
      [] s = "run" -> <<"r", "u", "n">>
      [] s = "running" -> <<"r", "u", "n", "n", "i", "n", "g">>
      [] s = "Running" -> <<"R", "u", "n", "n", "i", "n", "g">>
      [] s = "walk" -> <<"w", "a", "l", "k">>
      [] s = "walking" -> <<"w", "a", "l", "k", "i", "n", "g">>
      [] s = "rest" -> <<"r", "e", "s", "t">>
      [] s = "cycling" -> <<"c", "y", "c", "l", "i", "n", "g">>
      [] s = "interval" -> <<"i", "n", "t", "e", "r", "v", "a", "l">>
      [] s = "yoga" -> <<"y", "o", "g", "a">>

LowerChars(cs) == [i \in 1..Len(cs) |-> IF cs[i] = "R" THEN "r" ELSE cs[i]]

\* Python's "a in b" on strings
IsSubstr(a, b) ==
    \E i \in 1..(Len(b) - Len(a) + 1) : SubSeq(b, i, i + Len(a) - 1) = a

TypeMatch(rec_type, activity_type) ==
    LET workout_type == LowerChars(Chars(activity_type))
    IN  /\ IsSome(rec_type) /\ Val(rec_type) # ""
        /\ \/ IsSubstr(Chars(Val(rec_type)), workout_type)
           \/ IsSubstr(workout_type, Chars(Val(rec_type)))

\* within 20%: |seconds / 60 - minutes| <= minutes * 0.2
DurationMatch(rec_duration, duration_seconds) ==
    /\ IsSome(rec_duration) /\ Val(rec_duration) # 0
    /\ duration_seconds # 0
    /\ 5 * Abs(duration_seconds - 60 * Val(rec_duration)) <= 60 * Val(rec_duration)

\* the for loop from workout k on: the first workout matching in a dimension decides
RECURSIVE MatchFrom(_, _, _)
MatchFrom(rec, ws, k) ==
    IF k > Len(ws)
    THEN [status |-> PARTIAL, notes |-> Some(<<W("Did"), W("different"), W("workout")>>),
          matched_workout_id |-> None]
    ELSE LET w == workouts[ws[k]]
             type_match == TypeMatch(rec.workout_type, w.activity_type)
             duration_match == DurationMatch(rec.duration_minutes, w.duration_seconds)
         IN IF type_match /\ duration_match
            THEN [status |-> COMPLETED, notes |-> Some(<<W("Completed"), N(ws[k])>>),
                  matched_workout_id |-> Some(ws[k])]
            ELSE IF type_match \/ duration_match
            THEN [status |-> PARTIAL, notes |-> Some(<<W("Partial"), N(ws[k])>>),
                  matched_workout_id |-> Some(ws[k])]
            ELSE MatchFrom(rec, ws, k + 1)

\* the loop alone, without the answer for a day with no workouts
MatchWithoutEmptyCase(rec, ws) == MatchFrom(rec, ws, 1)

\* rec: the recommendation row; ws: the ids of the day's workouts as fetched
MatchRecommendationToWorkouts(rec, ws) ==
    IF ws = <<>>
    THEN [status |-> SKIPPED, notes |-> Some(<<W("No"), W("workouts"), W("logged")>>),
          matched_workout_id |-> None]
    ELSE MatchFrom(rec, ws, 1)

\* the ids in S in ascending order
RECURSIVE Ascending(_)
Ascending(S) == IF S = {} THEN <<>> ELSE <<MinOf(S)>> \o Ascending(S \ {MinOf(S)})

WorkoutsOn(user_id, day) ==
    Ascending({i \in 1..Len(workouts) :
        workouts[i].user_id = user_id /\ Day(workouts[i].start_time) = day})

\* the rows the matcher's query selects
PendingOn(rs, user_id, day) ==
    {i \in 1..Len(rs) :
        /\ rs[i].user_id = user_id
        /\ Day(rs[i].recommendation_date) = day
        /\ rs[i].status = PENDING}

\* loaded: the row as the matcher's session read it
Idle == [pc |-> "idle", user |-> NoUser, rec |-> 0, day |-> 0, loaded |-> None]

\* the first query answered with .scalars().first(): the first of several rows
CheckSelectFirst(u) ==
    /\ chk.pc = "idle"
    /\ LET yesterday == Day(now) - 1
           q == PendingOn(recs, u, yesterday)
       IN IF q # {}
          THEN /\ chk' = [pc |-> "loaded", user |-> u, rec |-> MinOf(q), day |-> yesterday,
                          loaded |-> Some(recs[MinOf(q)])]
               /\ lastOp' = Op("check_select", u, 0, "loaded", NoBody)
          ELSE /\ chk' = chk
               /\ lastOp' = Op("check_compliance", u, 0, "no_pending",
                               Body("unchecked", <<>>, {}, <<>>))
    /\ UNCHANGED <<now, profiles, health, recs, workouts, injuries, stream, events, chat, synced, sse>>

\* check_recommendation_compliance up to the first query's answer
CheckSelect(u) ==
    /\ chk.pc = "idle"
    /\ LET yesterday == Day(now) - 1
           q == PendingOn(recs, u, yesterday)
       IN IF Cardinality(q) = 1
          THEN /\ chk' = [pc |-> "loaded", user |-> u, rec |-> MinOf(q), day |-> yesterday,
                          loaded |-> Some(recs[MinOf(q)])]
               /\ lastOp' = Op("check_select", u, 0, "loaded", NoBody)
          ELSE /\ chk' = chk
               /\ lastOp' = Op("check_compliance", u, 0,
                               IF q = {} THEN "no_pending" ELSE "error",
                               Body("unchecked", <<>>, {}, <<>>))
    /\ UNCHANGED <<now, profiles, health, recs, workouts, injuries, stream, events, chat, synced, sse>>

\* the UPDATE the session flushes: the columns whose value differs from the one
\* loaded, and updated_at by its onupdate default
FlushCompliance(row, loaded, m) ==
    LET aw == IF IsSome(m.matched_workout_id) THEN m.matched_workout_id
              ELSE loaded.actual_workout_id
    IN [row EXCEPT !.status = IF m.status # loaded.status THEN m.status ELSE @,
                   !.compliance_notes = IF m.notes # loaded.compliance_notes
                                        THEN m.notes ELSE @,
                   !.actual_workout_id = IF aw # loaded.actual_workout_id THEN aw ELSE @,
                   !.updated_at = now]

\* check_recommendation_compliance from the workouts query to the commit
CheckCommit ==
    /\ chk.pc = "loaded"
    /\ LET m == MatchRecommendationToWorkouts(Val(chk.loaded), WorkoutsOn(chk.user, chk.day))
       IN /\ recs' = [recs EXCEPT ![chk.rec] = FlushCompliance(@, Val(chk.loaded), m)]
          /\ lastOp' = Op("check_compliance", chk.user, chk.rec, "ok",
                          Body(m.status, <<>>, {}, <<>>))
    /\ chk' = Idle
    /\ UNCHANGED <<now, profiles, health, workouts, injuries, stream, events, chat, synced, sse>>

----------------------------------------------------------------------------
(* Workouts arriving and time passing *)

\* sync_workouts_batch storing one workout session of the user
SyncWorkout(u, activity_type, start_time, duration_seconds) ==
    /\ workouts' = Append(workouts,
            [user_id |-> u, start_time |-> start_time, activity_type |-> activity_type,
             duration_seconds |-> duration_seconds, provider |-> "apple_healthkit",
             source_record_id |-> None])
    /\ lastOp' = Op("sync_workout", u, 0, "ok", NoBody)
    /\ UNCHANGED <<now, profiles, health, recs, injuries, chk, stream, events, chat, synced, sse>>

Tick ==
    /\ now < MaxNow
    /\ now' = now + 1
    /\ lastOp' = Op("tick", NoUser, 0, "ok", NoBody)
    /\ UNCHANGED <<profiles, health, recs, workouts, injuries, chk, stream, events, chat, synced, sse>>


----------------------------------------------------------------------------
(* The agent tools on injuries and on health data *)

\* report_injury
ReportInjury(cfg, pain_level) ==
    /\ IF cfg = NoUser
       THEN /\ injuries' = injuries
            /\ lastOp' = Op("report_injury", cfg, 0, "error", NoBody)
       ELSE /\ injuries' = Append(injuries,
                    [user_id |-> cfg, status |-> "active", injury_date |-> now,
                     initial_pain_level |-> pain_level, current_pain_level |-> pain_level,
                     actual_recovery_date |-> None, last_update_date |-> now,
                     timeline |-> <<>>])
            /\ lastOp' = Op("report_injury", cfg, 0, "ok", NoBody)
    /\ UNCHANGED <<now, profiles, health, recs, workouts, chk, stream, events, chat, synced, sse>>

\* the lookup by id alone, without the owner condition
FindInjuryAnyOwner(is, injury_id, user_id) ==
    IF injury_id \in 1..Len(is) THEN Some(injury_id) ELSE None

\* select ... where id == injury_id and user_id == user_id; scalar_one_or_none
FindInjury(is, injury_id, user_id) ==
    IF injury_id \in 1..Len(is) /\ is[injury_id].user_id = user_id
    THEN Some(injury_id) ELSE None

\* the recovery date stamped by every update to recovered
RecoveryDateRestamped(actual_recovery_date, status) ==
    IF IsSome(status) /\ Val(status) = "recovered" THEN Some(now) ELSE actual_recovery_date

\* the recovery date after an update: set when the status becomes recovered and
\* no date is set yet
RecoveryDate(actual_recovery_date, status) ==
    IF IsSome(status) /\ Val(status) = "recovered" /\ actual_recovery_date = None
    THEN Some(now) ELSE actual_recovery_date

\* update_injury_status
UpdateInjuryStatus(cfg, injury_id, pain_level, status) ==
    /\ IF cfg = NoUser
       THEN /\ injuries' = injuries
            /\ lastOp' = Op("update_injury_status", cfg, injury_id, "error", NoBody)
       ELSE IF FindInjury(injuries, injury_id, cfg) = None
       THEN /\ injuries' = injuries
            /\ lastOp' = Op("update_injury_status", cfg, injury_id, "not_found", NoBody)
       ELSE /\ injuries' = [injuries EXCEPT ![injury_id] =
                    [@ EXCEPT
                        !.current_pain_level = IF IsSome(pain_level) THEN Val(pain_level) ELSE @,
                        !.status = IF IsSome(status) THEN Val(status) ELSE @,
                        !.actual_recovery_date = RecoveryDate(@, status),
                        !.last_update_date = now,
                        !.timeline = Append(@, [user_id |-> cfg, update_date |-> now,
                                                pain_level |-> pain_level,
                                                status |-> status])]]
            /\ lastOp' = Op("update_injury_status", cfg, injury_id, "ok", NoBody)
    /\ UNCHANGED <<now, profiles, health, recs, workouts, chk, stream, events, chat, synced, sse>>

\* the rows get_active_injuries selects
ActiveInjuries(is, user_id, include_recovering) ==
    {i \in 1..Len(is) :
        /\ is[i].user_id = user_id
        /\ is[i].status \in (IF include_recovering THEN {"active", "recovering"}
                             ELSE {"active"})}

\* get_active_injuries
GetActiveInjuries(cfg, include_recovering) ==
    /\ lastOp' = IF cfg = NoUser
                 THEN Op("get_active_injuries", cfg, 0, "error", NoBody)
                 ELSE Op("get_active_injuries", cfg, 0, "ok",
                         Body("none", <<>>,
                              {Row("injury", i, injuries[i].user_id) :
                                    i \in ActiveInjuries(injuries, cfg, include_recovering)},
                              <<>>))
    /\ UNCHANGED <<now, profiles, health, recs, workouts, injuries, chk, stream, events, chat, synced, sse>>

\* the rows get_workout_details selects
RecentWorkouts(ws, user_id, days_back) ==
    {i \in 1..Len(ws) :
        ws[i].user_id = user_id /\ ws[i].start_time >= now - days_back}

\* get_workout_details
GetWorkoutDetails(cfg, days_back) ==
    /\ lastOp' = IF cfg = NoUser
                 THEN Op("get_workout_details", cfg, 0, "error", NoBody)
                 ELSE Op("get_workout_details", cfg, 0, "ok",
                         Body("none", <<>>,
                              {Row("workout", i, workouts[i].user_id) :
                                    i \in RecentWorkouts(workouts, cfg, days_back)}, <<>>))
    /\ UNCHANGED <<now, profiles, health, recs, workouts, injuries, chk, stream, events, chat, synced, sse>>

\* the user whose profile and VO2 rows get_user_health_data selects
HealthDataOwner(user_id) == user_id

\* get_user_health_data
GetUserHealthData(cfg) ==
    /\ lastOp' = IF cfg = NoUser
                 THEN Op("get_user_health_data", cfg, 0, "error", NoBody)
                 ELSE IF profiles[HealthDataOwner(cfg)] = None
                 THEN Op("get_user_health_data", cfg, 0, "not_found", NoBody)
                 ELSE Op("get_user_health_data", cfg, 0, "ok",
                         Body("none", <<>>, {Row("profile", 0, HealthDataOwner(cfg))}, <<>>))
    /\ UNCHANGED <<now, profiles, health, recs, workouts, injuries, chk, stream, events, chat, synced, sse>>


----------------------------------------------------------------------------
(* The streaming generator.  A response text is a sequence of tokens: words, *)
(* H(section) for a "## ..." header string, NL for a line break.            *)

H(section) == [h |-> section]
NL == [nl |-> TRUE]

IsHeader(t) == DOMAIN t = {"h"}
IsNL(t) == DOMAIN t = {"nl"}

EmptySections == Draft(Some(<<>>), Some(<<>>), Some(<<>>), Some(<<>>))

\* the lines of a text: split('\n')
RECURSIVE SplitLines(_, _, _)
SplitLines(text, k, line) ==
    IF k > Len(text) THEN <<line>>
    ELSE IF IsNL(text[k]) THEN <<line>> \o SplitLines(text, k + 1, <<>>)
    ELSE SplitLines(text, k + 1, Append(line, text[k]))

\* the loop over the lines from line k on: [current, sections]
RECURSIVE ParseLines(_, _, _, _)
ParseLines(lines, k, current, sections) ==
    IF k > Len(lines) THEN sections
    ELSE LET line == lines[k]
         IN IF line # <<>> /\ IsHeader(line[1])
            THEN ParseLines(lines, k + 1,
                            IF line[1].h \in {Fields[i] : i \in 1..Len(Fields)}
                            THEN Some(line[1].h) ELSE None,
                            sections)
            ELSE IF IsSome(current) /\ line # <<>>
            THEN ParseLines(lines, k + 1, current,
                            [sections EXCEPT ![Val(current)] = Some(Val(@) \o line)])
            ELSE ParseLines(lines, k + 1, current, sections)

\* _parse_coaching_response
ParseCoachingResponse(response_text) ==
    LET sections == ParseLines(SplitLines(response_text, 1, <<>>), 1, None, EmptySections)
    IN  IF \A i \in 1..Len(Fields) : ~Truthy(sections[Fields[i]])
        THEN [sections EXCEPT !.todays_training = Some(response_text)]
        ELSE sections

Event(type, content, insights, recommendations) ==
    [type |-> type, content |-> content, insights |-> insights,
     recommendations |-> recommendations]

Plain(type) == Event(type, <<>>, EmptySections, <<>>)

\* produced: the chunks the provider has produced so far, in order
NoStream == [pc |-> "idle", user |-> NoUser, full_response |-> <<>>, produced |-> <<>>]

StreamOp(u, pc) == Op("stream", u, 0, pc, NoBody)

StreamFrame == <<now, profiles, health, workouts, injuries, chk, chat, synced, sse>>

\* full_response holding the latest chunk only
AccumulateLatest(full_response, content) == content

\* what full_response becomes on a chunk with content
Accumulate(full_response, content) == full_response \o content

\* the table had the stream saved its parsed draft as the blocking path does
StreamPersistSaving(rs, u, insights) == SaveRecommendation(rs, u, insights, TRUE).recs

\* the table after the stream's final step: the stream saves nothing
StreamPersist(rs, u, insights) == rs

\* the first yield: the status event
StreamStart(u) ==
    /\ stream.pc = "idle"
    /\ stream' = [NoStream EXCEPT !.pc = "gather", !.user = u]
    /\ events' = <<Plain("status")>>
    /\ lastOp' = StreamOp(u, "gather")
    /\ UNCHANGED <<recs>> /\ UNCHANGED StreamFrame

\* _gather_user_context, then the context event or an error event
StreamGather ==
    /\ stream.pc = "gather"
    /\ LET g == GatherUserContext(stream.user)
       IN IF g.raised \/ g.context.profile = None
          THEN /\ stream' = [stream EXCEPT !.pc = "done"]
               /\ events' = Append(events, Plain("error"))
               /\ lastOp' = StreamOp(stream.user, "done")
          ELSE /\ stream' = [stream EXCEPT !.pc = "context_sent"]
               /\ events' = Append(events, Plain("context"))
               /\ lastOp' = StreamOp(stream.user, "context_sent")
    /\ UNCHANGED <<recs>> /\ UNCHANGED StreamFrame

\* the second status event
StreamStatus ==
    /\ stream.pc = "context_sent"
    /\ stream' = [stream EXCEPT !.pc = "call"]
    /\ events' = Append(events, Plain("status"))
    /\ lastOp' = StreamOp(stream.user, "call")
    /\ UNCHANGED <<recs>> /\ UNCHANGED StreamFrame

\* the prompt and the provider call: it opens a stream or raises
StreamCall(ok) ==
    /\ stream.pc = "call"
    /\ IF ok
       THEN /\ stream' = [stream EXCEPT !.pc = "streaming"]
            /\ events' = events
            /\ lastOp' = StreamOp(stream.user, "streaming")
       ELSE /\ stream' = [stream EXCEPT !.pc = "done"]
            /\ events' = Append(events, Plain("error"))
            /\ lastOp' = StreamOp(stream.user, "done")
    /\ UNCHANGED <<recs>> /\ UNCHANGED StreamFrame

\* one chunk from the provider: forwarded when it carries content
StreamChunk(content) ==
    /\ stream.pc = "streaming"
    /\ Len(stream.produced) < MaxChunks
    /\ stream' = [stream EXCEPT !.produced = Append(@, content),
                                !.full_response =
                                    IF content # <<>> THEN Accumulate(@, content) ELSE @]
    /\ events' = IF content # <<>>
                 THEN Append(events, Event("chunk", content, EmptySections, <<>>))
                 ELSE events
    /\ lastOp' = StreamOp(stream.user, "streaming")
    /\ UNCHANGED <<recs>> /\ UNCHANGED StreamFrame

\* the provider's stream raises
StreamProviderError ==
    /\ stream.pc = "streaming"
    /\ stream' = [stream EXCEPT !.pc = "done"]
    /\ events' = Append(events, Plain("error"))
    /\ lastOp' = StreamOp(stream.user, "done")
    /\ UNCHANGED <<recs>> /\ UNCHANGED StreamFrame

\* the provider's stream ends: parse and send the complete event
StreamComplete ==
    /\ stream.pc = "streaming"
    /\ LET parsed_insights == ParseCoachingResponse(stream.full_response)
       IN /\ events' = Append(events,
                    Event("complete", <<>>, parsed_insights,
                          ConvertInsightsToRecommendations(parsed_insights)))
          /\ recs' = StreamPersist(recs, stream.user, parsed_insights)
    /\ stream' = [stream EXCEPT !.pc = "done"]
    /\ lastOp' = StreamOp(stream.user, "done")
    /\ UNCHANGED StreamFrame

\* the client disconnects while the generator is suspended at a yield
StreamCancel ==
    /\ stream.pc \in {"gather", "context_sent", "call", "streaming"}
    /\ events # <<>>
    /\ stream' = [stream EXCEPT !.pc = "cancelled"]
    /\ lastOp' = StreamOp(stream.user, "cancelled")
    /\ UNCHANGED <<recs, events>> /\ UNCHANGED StreamFrame


----------------------------------------------------------------------------
(* Inputs *)

Profile(first_name, age) == [first_name |-> first_name, age |-> age]

Mike == Some(Profile(Some("Mike"), Some(30)))

NoReadings == [vo2 |-> <<>>, hr |-> <<>>, weight |-> <<>>]

AiDraft ==
    Draft(Some(<<W("Hey"), W("Mike"), N(30), W("min"), W("easy"), W("Run"), W("Zone"), N(2),
                 R(140, 150), W("BPM")>>),
          Some(NutritionText), Some(RecoveryText), Some(<<W("VO2"), W("improving")>>))

Providers == {ProviderFail, ProviderOk(AiDraft)}

CreateArgs ==
    {[todays_training |-> <<N(20), W("min"), W("walk")>>, workout_type |-> "walk",
      duration_minutes |-> 20, intensity_zone |-> None, heart_rate_range |-> None,
      nutrition_fueling |-> None, recovery_protocol |-> None, reasoning |-> None]}

NoUpdate ==
    [todays_training |-> None, workout_type |-> None, duration_minutes |-> None,
     intensity_zone |-> None, heart_rate_range |-> None, nutrition_fueling |-> None,
     recovery_protocol |-> None, reasoning |-> None, status |-> None]

UpdateArgs ==
    {[NoUpdate EXCEPT !.status = Some(st)] : st \in {"pending", "Completed", "done"}}
    \cup {[NoUpdate EXCEPT !.todays_training = Some(<<N(45), W("min"), W("rest")>>),
                           !.workout_type = Some("rest")]}

Notes == {None, Some(<<W("did"), N(20), W("min")>>)}

SyncedWorkouts ==
    {[activity_type |-> "Running", duration_seconds |-> 1920],
     [activity_type |-> "walking", duration_seconds |-> 600]}

Configs == Users \cup {NoUser}

PlanIds == 1..MaxRecs

----------------------------------------------------------------------------
(* Onboarding: the profile and the weight measurements *)

\* get_or_create_profile: a new profile carries the user id and the unit preference
GetOrCreateProfile(u) ==
    /\ profiles' = [profiles EXCEPT ![u] = IF @ = None THEN Some(Profile(None, None)) ELSE @]
    /\ lastOp' = Op("get_or_create_profile", u, 0, "ok", NoBody)
    /\ UNCHANGED <<now, health, recs, workouts, injuries, chk, stream, events, chat, synced, sse>>

\* create_or_update_profile: the upsert writes the fields supplied; age is the age
\* computed from a supplied birth date
CreateOrUpdateProfile(u, first_name, age) ==
    /\ profiles' = [profiles EXCEPT ![u] =
            IF @ = None THEN Some(Profile(first_name, age))
            ELSE Some([first_name |-> IF IsSome(first_name) THEN first_name
                                      ELSE Val(@).first_name,
                       age |-> IF IsSome(age) THEN age ELSE Val(@).age])]
    /\ lastOp' = Op("create_or_update_profile", u, 0, "ok", NoBody)
    /\ UNCHANGED <<now, health, recs, workouts, injuries, chk, stream, events, chat, synced, sse>>

\* add_weight_measurement: the newest measurement comes first in the history
AddWeightMeasurement(u, value_lbs) ==
    /\ profiles[u] # None
    /\ health' = [health EXCEPT ![u].weight = <<value_lbs>> \o @]
    /\ lastOp' = Op("add_weight_measurement", u, 0, "ok", NoBody)
    /\ UNCHANGED <<now, profiles, recs, workouts, injuries, chk, stream, events, chat, synced, sse>>

----------------------------------------------------------------------------
(* The remaining read tools of the agent *)

\* the rows get_injury_history selects
InjuryHistory(is, user_id, days_back, include_recovered) ==
    {i \in 1..Len(is) :
        /\ is[i].user_id = user_id
        /\ is[i].injury_date >= now - days_back
        /\ (include_recovered \/ is[i].status # "recovered")}

\* get_injury_history
GetInjuryHistory(cfg, days_back, include_recovered) ==
    /\ lastOp' = IF cfg = NoUser
                 THEN Op("get_injury_history", cfg, 0, "error", NoBody)
                 ELSE Op("get_injury_history", cfg, 0, "ok",
                         Body("none", <<>>,
                              {Row("injury", i, injuries[i].user_id) :
                                    i \in InjuryHistory(injuries, cfg, days_back,
                                                        include_recovered)},
                              <<>>))
    /\ UNCHANGED <<now, profiles, health, recs, workouts, injuries, chk, stream, events, chat, synced, sse>>

\* the user whose profile get_user_profile reads, creating it when absent
ProfileOwner(user_id) == user_id

\* get_user_profile
GetUserProfile(cfg) ==
    /\ IF cfg = NoUser
       THEN /\ profiles' = profiles
            /\ lastOp' = Op("get_user_profile", cfg, 0, "error", NoBody)
       ELSE /\ profiles' = [profiles EXCEPT ![ProfileOwner(cfg)] =
                                IF @ = None THEN Some(Profile(None, None)) ELSE @]
            /\ lastOp' = Op("get_user_profile", cfg, 0, "ok",
                            Body("none", <<>>, {Row("profile", 0, ProfileOwner(cfg))}, <<>>))
    /\ UNCHANGED <<now, health, recs, workouts, injuries, chk, stream, events, chat, synced, sse>>

\* the user whose VO2 estimates get_vo2_trends selects
Vo2Owner(user_id) == user_id

\* get_vo2_trends
GetVo2Trends(cfg) ==
    /\ lastOp' = IF cfg = NoUser
                 THEN Op("get_vo2_trends", cfg, 0, "error", NoBody)
                 ELSE Op("get_vo2_trends", cfg, 0, "ok",
                         Body("none", <<>>,
                              {Row("vo2", i, Vo2Owner(cfg)) :
                                    i \in 1..Len(health[Vo2Owner(cfg)].vo2)}, <<>>))
    /\ UNCHANGED <<now, profiles, health, recs, workouts, injuries, chk, stream, events, chat, synced, sse>>

----------------------------------------------------------------------------
(* The coaching chat: the sessions table and the agent's threads, kept by   *)
(* the checkpointer under the thread id                                     *)

SessionIds == 1..MaxSessions

\* payload.session_id absent
NoSession == 0

NoChat == [sessions |-> <<>>, threads |-> [t \in SessionIds |-> <<>>], turns |-> <<>>]

\* the user's message, prefixed with today's date
Human(message) == [role |-> "human", date |-> Day(now), content |-> message]

\* the model's answer to a history: it answers the history's last message
Reply(history) == [role |-> "ai", date |-> history[Len(history)].date,
                   content |-> history[Len(history)].content]

\* the session found by its id alone
FindSessionAnyOwner(sessions, session_id, user_id) ==
    IF session_id \in 1..Len(sessions) THEN Some(session_id) ELSE None

\* select ... where id == session_id and user_id == user_id; scalar_one_or_none
FindSession(sessions, session_id, user_id) ==
    IF session_id \in 1..Len(sessions) /\ sessions[session_id].user_id = user_id
    THEN Some(session_id) ELSE None

\* every conversation on the thread of the first session
ThreadOfFirstSession(session_id) == 1

\* the thread id the controller hands to the agent
ThreadOf(session_id) == session_id

\* a turn of the agent on a thread: the state it loaded from the checkpointer with
\* the user's message appended, saved as the thread's latest state
StartTurn(c, u, thread, message) ==
    LET local == c.threads[thread] \o <<Human(message)>>
    IN [c EXCEPT !.threads[thread] = local,
                 !.turns = Append(@, [user |-> u, thread |-> thread, local |-> local,
                                      pc |-> "running"])]

\* send_message up to the agent's call of the model: the session is created or
\* verified and refreshed, and the agent's turn starts
SendMessage(u, session_id, message) ==
    /\ IF session_id = NoSession
       THEN LET created == Len(chat.sessions) + 1
                c == [chat EXCEPT !.sessions =
                        Append(@, [user_id |-> u, started_at |-> now, last_active_at |-> now])]
            IN /\ chat' = StartTurn(c, u, ThreadOf(created), message)
               /\ lastOp' = Op("send_message", u, created, "created", NoBody)
       ELSE IF FindSession(chat.sessions, session_id, u) = None
       THEN /\ chat' = chat
            /\ lastOp' = Op("send_message", u, session_id, "not_found", NoBody)
       ELSE LET c == [chat EXCEPT !.sessions[session_id].last_active_at = now]
            IN /\ chat' = StartTurn(c, u, ThreadOf(session_id), message)
               /\ lastOp' = Op("send_message", u, session_id, "resumed", NoBody)
    /\ UNCHANGED <<now, profiles, health, recs, workouts, injuries, chk, stream, events, synced, sse>>

\* the model answers turn k: the turn's state with the answer appended becomes
\* the thread's latest state, and send_message returns
AgentReply(k) ==
    /\ k \in 1..Len(chat.turns)
    /\ chat.turns[k].pc = "running"
    /\ LET turn == chat.turns[k]
           local == turn.local \o <<Reply(turn.local)>>
       IN /\ chat' = [chat EXCEPT !.threads[turn.thread] = local,
                                   !.turns[k] = [turn EXCEPT !.local = local, !.pc = "done"]]
          /\ lastOp' = Op("agent_reply", turn.user, turn.thread, "ok", NoBody)
    /\ UNCHANGED <<now, profiles, health, recs, workouts, injuries, chk, stream, events, synced, sse>>

----------------------------------------------------------------------------
(* The chat stream: stream_message as a generator of SSE events *)

ChatEvent(type, data) == [type |-> type, data |-> data]

\* the events of the agent's event stream: model chunks with and without
\* content, tool starts and ends, and events of other kinds
AgentEvents ==
    {[event |-> "on_chat_model_stream", content |-> "Hi"],
     [event |-> "on_chat_model_stream", content |-> ""],
     [event |-> "on_tool_start", content |-> "get_user_profile"],
     [event |-> "on_tool_end", content |-> "get_user_profile"],
     [event |-> "on_chain_start", content |-> ""]}

\* what the loop yields for an event of the agent
Forward(out, e) ==
    CASE e.event = "on_chat_model_stream" ->
            IF e.content # "" THEN Append(out, ChatEvent("token", e.content)) ELSE out
      [] e.event = "on_tool_start" -> Append(out, ChatEvent("tool_start", e.content))
      [] e.event = "on_tool_end" -> Append(out, ChatEvent("tool_end", e.content))
      [] OTHER -> out

\* an exception that ends the stream without an event
OnExceptionSilent(out, message) == out

\* except Exception: the error event
OnException(out, message) == Append(out, ChatEvent("error", message))

\* a run of the generator: the caller, the session id of the payload or of the
\* session created, the agent's turn (0: none), the events yielded so far
Run(user_id, session_id, turn, out, pc) ==
    [user_id |-> user_id, session_id |-> session_id, turn |-> turn, out |-> out, pc |-> pc]

\* a turn of the agent that streams its events
StartStreamTurn(c, u, thread, message) ==
    LET started == StartTurn(c, u, thread, message)
    IN [started EXCEPT !.turns[Len(started.turns)].pc = "streaming"]

\* stream_message up to the agent's event stream: the caller is authenticated,
\* the session is created or verified and refreshed, and the agent's turn starts
StreamMessage(u, session_id, message, commitOk) ==
    /\ IF u = NoUser
       THEN /\ chat' = chat
            /\ sse' = Append(sse, Run(u, session_id, 0,
                                      <<ChatEvent("error", "Not authenticated")>>, "closed"))
            /\ lastOp' = Op("stream_message", u, session_id, "not_authenticated", NoBody)
       ELSE IF session_id # NoSession /\ FindSession(chat.sessions, session_id, u) = None
       THEN /\ chat' = chat
            /\ sse' = Append(sse, Run(u, session_id, 0,
                                      <<ChatEvent("error", "Session not found")>>, "closed"))
            /\ lastOp' = Op("stream_message", u, session_id, "not_found", NoBody)
       ELSE IF ~commitOk
       THEN /\ chat' = chat
            /\ sse' = Append(sse, Run(u, session_id, 0,
                                      OnException(<<>>, "commit failed"), "closed"))
            /\ lastOp' = Op("stream_message", u, session_id, "error", NoBody)
       ELSE IF session_id = NoSession
       THEN LET created == Len(chat.sessions) + 1
                c == [chat EXCEPT !.sessions =
                        Append(@, [user_id |-> u, started_at |-> now, last_active_at |-> now])]
            IN /\ chat' = StartStreamTurn(c, u, ThreadOf(created), message)
               /\ sse' = Append(sse, Run(u, created, Len(chat.turns) + 1, <<>>, "open"))
               /\ lastOp' = Op("stream_message", u, created, "created", NoBody)
       ELSE LET c == [chat EXCEPT !.sessions[session_id].last_active_at = now]
            IN /\ chat' = StartStreamTurn(c, u, ThreadOf(session_id), message)
               /\ sse' = Append(sse, Run(u, session_id, Len(chat.turns) + 1, <<>>, "open"))
               /\ lastOp' = Op("stream_message", u, session_id, "resumed", NoBody)
    /\ UNCHANGED <<now, profiles, health, recs, workouts, injuries, chk, stream, events, synced>>

\* the agent hands run r its next event
AgentEvent(r, e) ==
    /\ r \in 1..Len(sse)
    /\ sse[r].pc = "open"
    /\ sse' = [sse EXCEPT ![r].out = Forward(@, e)]
    /\ lastOp' = Op("agent_event", sse[r].user_id, sse[r].session_id, "ok", NoBody)
    /\ UNCHANGED <<now, profiles, health, recs, workouts, injuries, chk, stream, events, chat,
                   synced>>

\* the agent's event stream of run r is exhausted: the turn's state with the
\* answer is the thread's latest state, and done is yielded with the session id
StreamDone(r) ==
    /\ r \in 1..Len(sse)
    /\ sse[r].pc = "open"
    /\ LET turn == chat.turns[sse[r].turn]
           local == turn.local \o <<Reply(turn.local)>>
       IN chat' = [chat EXCEPT !.threads[turn.thread] = local,
                               !.turns[sse[r].turn] = [turn EXCEPT !.local = local,
                                                                   !.pc = "done"]]
    /\ sse' = [sse EXCEPT ![r].out = Append(@, ChatEvent("done", sse[r].session_id)),
                          ![r].pc = "closed"]
    /\ lastOp' = Op("stream_done", sse[r].user_id, sse[r].session_id, "ok", NoBody)
    /\ UNCHANGED <<now, profiles, health, recs, workouts, injuries, chk, stream, events, synced>>

\* the agent's event stream of run r raises
StreamError(r) ==
    /\ r \in 1..Len(sse)
    /\ sse[r].pc = "open"
    /\ chat' = [chat EXCEPT !.turns[sse[r].turn].pc = "failed"]
    /\ sse' = [sse EXCEPT ![r].out = OnException(@, "agent failed"), ![r].pc = "closed"]
    /\ lastOp' = Op("stream_error", sse[r].user_id, sse[r].session_id, "error", NoBody)
    /\ UNCHANGED <<now, profiles, health, recs, workouts, injuries, chk, stream, events, synced>>

\* the client disconnects from run r: the generator is closed where it stands
StreamCancelled(r) ==
    /\ r \in 1..Len(sse)
    /\ sse[r].pc = "open"
    /\ chat' = [chat EXCEPT !.turns[sse[r].turn].pc = "cancelled"]
    /\ sse' = [sse EXCEPT ![r].pc = "cancelled"]
    /\ lastOp' = Op("stream_cancelled", sse[r].user_id, sse[r].session_id, "ok", NoBody)
    /\ UNCHANGED <<now, profiles, health, recs, workouts, injuries, chk, stream, events, synced>>

----------------------------------------------------------------------------
(* Batch sync of health data: heart rate, steps, VO2 max and workouts       *)

\* the tables of samples the batch sync writes, besides workout_sessions
SampleKinds == {"heart_rate", "steps", "vo2max"}

SyncKinds == SampleKinds \cup {"workouts"}

NoSynced == [heart_rate |-> <<>>, steps |-> <<>>, vo2max |-> <<>>,
             devices |-> {}, ingest_batches |-> <<>>]

\* the rows of a data kind
TableOf(kind) == IF kind = "workouts" THEN workouts ELSE synced[kind]

\* the time column of a data kind: captured_at, start_minute, measured_at, start_time
TimeOf(kind, row) == IF kind = "workouts" THEN row.start_time ELSE row.at

\* 'if source_id:' a source id that is neither absent nor empty
HasSourceId(sample) == sample.source_record_id # None /\ Val(sample.source_record_id) # ""

\* the prefetch: the batch's source ids that the user's rows of the provider carry
ExistingSourceIds(table, user_id, provider, samples) ==
    {Val(table[i].source_record_id) :
        i \in {j \in 1..Len(table) :
                 /\ table[j].user_id = user_id
                 /\ table[j].provider = provider
                 /\ \E k \in 1..Len(samples) :
                        /\ HasSourceId(samples[k])
                        /\ table[j].source_record_id = samples[k].source_record_id}}

\* the row built from a sample of the batch
SampleRow(kind, user_id, provider, sample) ==
    IF kind = "workouts"
    THEN [user_id |-> user_id, start_time |-> sample.at, activity_type |-> "Running",
          duration_seconds |-> 1800, provider |-> provider,
          source_record_id |-> sample.source_record_id]
    ELSE [user_id |-> user_id, provider |-> provider,
          source_record_id |-> sample.source_record_id, at |-> sample.at]

\* the loop of sync_heart_rate_batch, sync_steps_batch and sync_vo2max_batch from
\* sample k on: a source id seen in the table or earlier in the batch is skipped,
\* a sample that fails to parse is dropped after its source id was noted
RECURSIVE SamplesLoop(_, _, _, _, _, _)
SamplesLoop(kind, user_id, provider, samples, k, acc) ==
    IF k > Len(samples) THEN acc
    ELSE LET sample == samples[k]
             source_id == sample.source_record_id
         IN IF HasSourceId(sample) /\ Val(source_id) \in acc.existing_source_ids
            THEN SamplesLoop(kind, user_id, provider, samples, k + 1,
                             [acc EXCEPT !.skipped = @ + 1])
            ELSE LET noted == IF HasSourceId(sample)
                              THEN [acc EXCEPT !.existing_source_ids = @ \cup {Val(source_id)}]
                              ELSE acc
                 IN SamplesLoop(kind, user_id, provider, samples, k + 1,
                        IF sample.well_formed
                        THEN [noted EXCEPT
                                !.added = Append(@, SampleRow(kind, user_id, provider, sample)),
                                !.stored = @ + 1]
                        ELSE noted)

\* the loop of sync_workouts_batch from workout k on: each source id is looked up
\* in the table by a query of its own, which does not see the rows this session
\* has added and not flushed
RECURSIVE WorkoutsLoop(_, _, _, _, _)
WorkoutsLoop(user_id, provider, batch, k, acc) ==
    IF k > Len(batch) THEN acc
    ELSE LET workout == batch[k]
             existing == {i \in 1..Len(workouts) :
                            /\ workouts[i].user_id = user_id
                            /\ workouts[i].provider = provider
                            /\ workouts[i].source_record_id = workout.source_record_id}
         IN IF HasSourceId(workout) /\ existing # {}
            THEN WorkoutsLoop(user_id, provider, batch, k + 1, [acc EXCEPT !.skipped = @ + 1])
            ELSE WorkoutsLoop(user_id, provider, batch, k + 1,
                    IF workout.well_formed
                    THEN [acc EXCEPT
                            !.added = Append(@, SampleRow("workouts", user_id, provider, workout)),
                            !.stored = @ + 1]
                    ELSE acc)

\* the unique constraint of a data kind: uq_hr_external, uq_vo2_external and
\* uq_workout_external on (user_id, provider, source_record_id), where rows
\* without a source id never collide; uq_steps_min on (user_id, provider,
\* start_minute)
UniqueKept(kind, table) ==
    \A i, j \in 1..Len(table) :
        (i < j /\ table[i].user_id = table[j].user_id /\ table[i].provider = table[j].provider) =>
            IF kind = "steps"
            THEN TimeOf(kind, table[i]) # TimeOf(kind, table[j])
            ELSE \/ table[i].source_record_id = None
                 \/ table[i].source_record_id # table[j].source_record_id

\* the counts a batch sync returns
SyncCounts(kind, received, stored, skipped) ==
    [status |-> "success", recommendations |-> <<>>, returned |-> {}, updated_fields |-> <<>>,
     data_kind |-> kind, total_received |-> received, total_stored |-> stored,
     duplicates_skipped |-> skipped]

\* POST /health/sync/<kind>: the device is found or created, the ingest batch is
\* added, the samples are looped over and everything is committed at once; a
\* commit the table's unique constraint refuses raises, the controller answers
\* 500 and the session is rolled back
SyncBatch(kind, user_id, provider, samples) ==
    LET table == TableOf(kind)
        start == [existing_source_ids |-> ExistingSourceIds(table, user_id, provider, samples),
                  added |-> <<>>, stored |-> 0, skipped |-> 0]
        done == IF kind = "workouts"
                THEN WorkoutsLoop(user_id, provider, samples, 1, start)
                ELSE SamplesLoop(kind, user_id, provider, samples, 1, start)
        committed == UniqueKept(kind, table \o done.added)
    IN /\ IF committed
          THEN /\ workouts' = IF kind = "workouts" THEN workouts \o done.added ELSE workouts
               /\ synced' =
                    [IF kind = "workouts" THEN synced
                     ELSE [synced EXCEPT ![kind] = @ \o done.added]
                        EXCEPT !.devices = @ \cup {<<user_id, provider>>},
                               !.ingest_batches =
                                    Append(@, [user_id |-> user_id, provider |-> provider,
                                               count_received |-> Len(samples),
                                               count_stored |-> done.stored])]
               /\ lastOp' = Op("sync_batch", user_id, 0, "ok",
                               SyncCounts(kind, Len(samples), done.stored, done.skipped))
          ELSE /\ UNCHANGED <<workouts, synced>>
               /\ lastOp' = Op("sync_batch", user_id, 0, "error",
                               [SyncCounts(kind, Len(samples), 0, 0) EXCEPT !.status = "error"])
       /\ UNCHANGED <<now, profiles, health, recs, injuries, chk, stream, events, chat, sse>>

----------------------------------------------------------------------------
(* The recommendation store and its operations, users onboarded *)

Init ==
    /\ now = 0
    /\ profiles = [u \in Users |-> Mike]
    /\ health = [u \in Users |-> NoReadings]
    /\ recs = <<>>
    /\ workouts = <<>>
    /\ injuries = <<>>
    /\ chk = Idle
    /\ stream = NoStream
    /\ events = <<>>
    /\ chat = NoChat
    /\ synced = NoSynced
    /\ sse = <<>>
    /\ lastOp = Op("init", NoUser, 0, "ok", NoBody)

Next ==
    \/ Tick
    \/ /\ Len(recs) < MaxRecs
       /\ \E u \in Users, p \in Providers, c \in BOOLEAN : GenerateRecommendations(u, p, c)
    \/ /\ Len(recs) < MaxRecs
       /\ \E cfg \in Configs, a \in CreateArgs : CreateCoachingPlan(cfg, a)
    \/ \E u \in Users, id \in PlanIds, st \in PlanStatus, n \in Notes :
            UpdatePlanStatus(u, id, st, n)
    \/ \E cfg \in Configs, id \in PlanIds, a \in UpdateArgs : UpdateCoachingPlan(cfg, id, a)
    \/ \E u \in Users : CheckSelect(u)
    \/ CheckCommit
    \/ /\ Len(workouts) < MaxWorkouts
       /\ \E u \in Users, w \in SyncedWorkouts, t \in 0..now :
            SyncWorkout(u, w.activity_type, t, w.duration_seconds)

Spec == Init /\ [][Next]_vars

----------------------------------------------------------------------------
(* The plans of a day: the generator and the plan tool creating rows *)

NextDaily ==
    \/ Tick
    \/ /\ Len(recs) < MaxPlans
       /\ \E u \in Users, p \in Providers, c \in BOOLEAN : GenerateRecommendations(u, p, c)
    \/ /\ Len(recs) < MaxPlans
       /\ \E cfg \in Configs, a \in CreateArgs : CreateCoachingPlan(cfg, a)

SpecDaily == Init /\ [][NextDaily]_vars

----------------------------------------------------------------------------
(* The agent's tools, called with any bound configuration and any arguments *)

Windows == {0, 7}

PainLevels == {3}

InjuryIds == 1..MaxInjuries

InjuryStatuses == {None, Some("recovered")}

AgentUpdates ==
    {a \in UpdateArgs : IsSome(a.todays_training) \/ a.status = Some("Completed")}

AgentWorkouts == {w \in SyncedWorkouts : w.activity_type = "Running"}

NextAgent ==
    \/ Tick
    \/ /\ Len(workouts) < MaxWorkouts
       /\ \E u \in Users, w \in AgentWorkouts, t \in 0..now :
            SyncWorkout(u, w.activity_type, t, w.duration_seconds)
    \/ /\ Len(recs) < MaxRecs
       /\ \E cfg \in Configs, a \in CreateArgs : CreateCoachingPlan(cfg, a)
    \/ \E cfg \in Configs, id \in PlanIds, a \in AgentUpdates : UpdateCoachingPlan(cfg, id, a)
    \/ \E cfg \in Configs, days \in Windows : GetPreviousPlans(cfg, days)
    \/ /\ Len(injuries) < MaxInjuries
       /\ \E cfg \in Configs, p \in PainLevels : ReportInjury(cfg, p)
    \/ \E cfg \in Configs, id \in InjuryIds, p \in {None, Some(1)}, st \in InjuryStatuses :
            /\ id \in 1..Len(injuries) => Len(injuries[id].timeline) < MaxUpdates
            /\ UpdateInjuryStatus(cfg, id, p, st)
    \/ \E cfg \in Configs, b \in BOOLEAN : GetActiveInjuries(cfg, b)
    \/ \E cfg \in Configs, days \in Windows, b \in BOOLEAN : GetInjuryHistory(cfg, days, b)
    \/ \E cfg \in Configs, days \in Windows : GetWorkoutDetails(cfg, days)
    \/ \E cfg \in Configs : GetUserHealthData(cfg)
    \/ \E cfg \in Configs : GetUserProfile(cfg)
    \/ \E cfg \in Configs : GetVo2Trends(cfg)

SpecAgent == Init /\ [][NextAgent]_vars

----------------------------------------------------------------------------
(* Stored plans and the two operations that update one by id: the status    *)
(* endpoint and the agent's update tool, called by the owner and by others  *)

NextUpdate ==
    \/ Tick
    \/ /\ Len(recs) < MaxRecs
       /\ \E u \in Users, c \in BOOLEAN : GenerateRecommendations(u, ProviderOk(AiDraft), c)
    \/ \E u \in Users, id \in PlanIds, st \in PlanStatus, n \in Notes :
            UpdatePlanStatus(u, id, st, n)
    \/ \E cfg \in Configs, id \in PlanIds, a \in AgentUpdates : UpdateCoachingPlan(cfg, id, a)

SpecUpdate == Init /\ [][NextUpdate]_vars

----------------------------------------------------------------------------
(* The recommendation generator, blocking and streaming, for a user who     *)
(* signs up, onboards and asks for recommendations                          *)

GenUsers == {"u1"}

FirstNames == {None, Some("Mike")}

Ages == {None, Some(DefaultAge)}

Weights == {150}

Chunks ==
    {<<>>,
     <<H("todays_training"), NL, N(30), W("min"), W("Run"), NL>>,
     <<H("reasoning"), NL, W("VO2"), W("improving")>>}

InitGen ==
    /\ now = 0
    /\ profiles = [u \in Users |-> None]
    /\ health = [u \in Users |-> NoReadings]
    /\ recs = <<>>
    /\ workouts = <<>>
    /\ injuries = <<>>
    /\ chk = Idle
    /\ stream = NoStream
    /\ events = <<>>
    /\ chat = NoChat
    /\ synced = NoSynced
    /\ sse = <<>>
    /\ lastOp = Op("init", NoUser, 0, "ok", NoBody)

NextGen ==
    \/ \E u \in GenUsers : GetOrCreateProfile(u)
    \/ \E u \in GenUsers, f \in FirstNames, a \in Ages : CreateOrUpdateProfile(u, f, a)
    \/ \E u \in GenUsers, w \in Weights :
            Len(health[u].weight) < MaxWeights /\ AddWeightMeasurement(u, w)
    \/ /\ Len(recs) < MaxRecs
       /\ \E u \in GenUsers, p \in Providers, c \in BOOLEAN : GenerateRecommendations(u, p, c)
    \/ \E u \in GenUsers : StreamStart(u)
    \/ StreamGather
    \/ StreamStatus
    \/ \E ok \in BOOLEAN : StreamCall(ok)
    \/ \E content \in Chunks : StreamChunk(content)
    \/ StreamProviderError
    \/ StreamComplete
    \/ StreamCancel

SpecGen == InitGen /\ [][NextGen]_vars

----------------------------------------------------------------------------
(* Properties of the recommendation store *)

UpdateKinds == {"update_plan_status", "update_coaching_plan"}

\* the last call was an update by a user naming a row that another user owns
CrossUserUpdate(op, rs) ==
    /\ op.kind \in UpdateKinds
    /\ op.caller \in Users
    /\ op.target \in 1..Len(rs)
    /\ rs[op.target].user_id # op.caller

\* C1: an update through update_plan_status or update_coaching_plan by a caller
\* who does not own the recommendation it names fails as not found and leaves
\* every field of every recommendation, updated_at included, as it was
CrossUserUpdateRejected ==
    [][CrossUserUpdate(lastOp', recs) => (lastOp'.result = "not_found" /\ recs' = recs)]_vars

\* a cross-user update has been answered not found on a later day than the
\* row was written
CrossUserUpdateSeen ==
    /\ CrossUserUpdate(lastOp, recs)
    /\ lastOp.result = "not_found"
    /\ recs[lastOp.target].updated_at < now

\* C2: a user has at most one recommendation per calendar day
OnePlanPerUserPerDay ==
    \A i, j \in 1..Len(recs) :
        (recs[i].user_id = recs[j].user_id
         /\ Day(recs[i].recommendation_date) = Day(recs[j].recommendation_date)) => i = j

\* C3: a recommendation is created pending, its status is always one of the four
\* enum values, and no operation moves a completed, skipped or partial
\* recommendation back to pending
StatusLifecycle ==
    [][/\ \A i \in 1..Len(recs') : recs'[i].status \in RecommendationStatus
       /\ \A i \in (Len(recs) + 1)..Len(recs') : recs'[i].status = PENDING
       /\ \A i \in 1..Len(recs) :
            recs[i].status \in PlanStatus => recs'[i].status # PENDING]_vars

\* the day a call of the matcher takes for yesterday
MatcherDay == IF chk.pc = "loaded" THEN chk.day ELSE Day(now) - 1

\* C10: a call of check_recommendation_compliance leaves the status, the notes
\* and the workout link of every recommendation that is completed, skipped or
\* partial, not dated yesterday, or owned by another user as they were; when
\* the user has no pending recommendation dated yesterday it reports
\* checked=false and writes nothing
MatcherFrame ==
    [][lastOp'.kind = "check_compliance" =>
        /\ \A i \in 1..Len(recs) :
                (\/ recs[i].status \in PlanStatus
                 \/ Day(recs[i].recommendation_date) # MatcherDay
                 \/ recs[i].user_id # lastOp'.caller)
                => /\ recs'[i].status = recs[i].status
                   /\ recs'[i].compliance_notes = recs[i].compliance_notes
                   /\ recs'[i].actual_workout_id = recs[i].actual_workout_id
        /\ PendingOn(recs, lastOp'.caller, MatcherDay) = {}
                => (lastOp'.body.status = "unchecked" /\ recs' = recs)]_vars

----------------------------------------------------------------------------
(* Properties of the agent's tools *)

ToolKinds ==
    {"create_coaching_plan", "update_coaching_plan", "get_previous_plans", "report_injury",
     "update_injury_status", "get_active_injuries", "get_injury_history",
     "get_workout_details", "get_user_health_data", "get_user_profile", "get_vo2_trends"}

\* the rows of table that differ in table2, or are new in it, belong to U
OnlyRowsOf(U, table, table2) ==
    /\ Len(table2) >= Len(table)
    /\ \A i \in 1..Len(table2) :
            IF i > Len(table) THEN table2[i].user_id = U
            ELSE table2[i] # table[i] => (table[i].user_id = U /\ table2[i].user_id = U)

\* C4: a tool called with the configuration bound to U returns and modifies only
\* rows of U, whatever ids, windows and texts it is given; called without a bound
\* user it answers an error and touches nothing
ToolsScopedToBoundUser ==
    [][lastOp'.kind \in ToolKinds =>
        LET U == lastOp'.caller
        IN /\ OnlyRowsOf(U, recs, recs')
           /\ OnlyRowsOf(U, injuries, injuries')
           /\ \A i \in 1..Len(injuries') : \A k \in 1..Len(injuries'[i].timeline) :
                    injuries'[i].timeline[k].user_id = injuries'[i].user_id
           /\ workouts' = workouts
           /\ health' = health
           /\ \A u \in Users \ {U} : profiles'[u] = profiles[u]
           /\ \A r \in lastOp'.body.returned : r.owner = U
           /\ U = NoUser =>
                /\ lastOp'.result = "error"
                /\ lastOp'.body.returned = {}
                /\ recs' = recs /\ injuries' = injuries /\ profiles' = profiles]_vars

\* a tool bound to one user has named another user's injury and was answered
\* not found
ForeignInjuryNamed ==
    /\ lastOp.kind = "update_injury_status"
    /\ lastOp.caller \in Users
    /\ lastOp.target \in 1..Len(injuries)
    /\ injuries[lastOp.target].user_id # lastOp.caller
    /\ lastOp.result = "not_found"

----------------------------------------------------------------------------
(* Properties of the generator *)

FourEntries(recommendations) ==
    /\ Len(recommendations) = Len(Titles)
    /\ \A k \in 1..Len(Titles) : recommendations[k].title = Titles[k]

FourFieldDraft(insights) == \A k \in 1..Len(Fields) : IsSome(insights[Fields[k]])

\* the positions of the events of the given types
EventsOf(types) == {i \in 1..Len(events) : events[i].type \in types}

\* C5: for a user with a profile every recommendation request delivers a plan,
\* also when the provider call fails: the blocking request answers a four-field
\* plan, and a stream that has sent the user's context ends with a complete
\* event carrying a four-field draft, not with an error event
PlanAlwaysDelivered ==
    [][/\ (lastOp'.kind = "generate" /\ lastOp' # lastOp /\ profiles[lastOp'.caller] # None)
            => FourEntries(lastOp'.body.recommendations)
       /\ (stream.pc # "done" /\ stream'.pc = "done" /\ profiles[stream.user] # None
            /\ EventsOf({"context"}) # {})
            => /\ events'[Len(events')].type = "complete"
               /\ FourFieldDraft(events'[Len(events')].insights)]_vars

\* C6: on a provider failure _generate_ai_insights returns, without raising, a
\* fallback draft with the four fields non-empty, for every context the
\* aggregator can hand it
FallbackNeverFails ==
    \A u \in Users :
        LET g == GatherUserContext(u)
            ai == GenerateAiInsights(g.context, ProviderFail)
        IN  ~g.raised =>
                /\ ~ai.raised
                /\ ~ai.success
                /\ \A k \in 1..Len(Fields) : Truthy(ai.insights[Fields[k]])

\* C7: a user with no profile and no data who asks for recommendations is
\* answered success or partial_success with a four-field plan
NewUserGetsPlan ==
    (lastOp.kind = "generate" /\ profiles[lastOp.caller] = None
        /\ health[lastOp.caller] = NoReadings)
    => /\ lastOp.body.status \in {"success", "partial_success"}
       /\ FourEntries(lastOp.body.recommendations)

\* the contents of the chunk events from event k on, concatenated
RECURSIVE ChunkText(_)
ChunkText(k) ==
    IF k > Len(events) THEN <<>>
    ELSE (IF events[k].type = "chunk" THEN events[k].content ELSE <<>>) \o ChunkText(k + 1)

\* the non-empty chunks among those produced from chunk k on, in order
RECURSIVE Forwarded(_, _)
Forwarded(produced, k) ==
    IF k > Len(produced) THEN <<>>
    ELSE (IF produced[k] # <<>> THEN <<produced[k]>> ELSE <<>>) \o Forwarded(produced, k + 1)

\* the contents of the chunk events from event k on, in order
RECURSIVE ChunkContents(_)
ChunkContents(k) ==
    IF k > Len(events) THEN <<>>
    ELSE (IF events[k].type = "chunk" THEN <<events[k].content>> ELSE <<>>)
         \o ChunkContents(k + 1)

\* C8: the first event of a stream is a status event; the context event precedes
\* every chunk; the chunks are the provider's non-empty chunks in its order; at
\* most one complete or error event is sent and nothing follows it; the complete
\* event carries the parse of the concatenation of the chunks sent
StreamEventOrder ==
    /\ events # <<>> => events[1].type = "status"
    /\ \A i \in EventsOf({"chunk"}) : \E j \in EventsOf({"context"}) : j < i
    /\ ChunkContents(1) = Forwarded(stream.produced, 1)
    /\ Cardinality(EventsOf({"complete", "error"})) <= 1
    /\ \A i \in EventsOf({"complete", "error"}) : i = Len(events)
    /\ \A i \in EventsOf({"complete"}) :
            /\ events[i].insights = ParseCoachingResponse(ChunkText(1))
            /\ events[i].recommendations =
                    ConvertInsightsToRecommendations(ParseCoachingResponse(ChunkText(1)))

\* a stream has completed after two different chunks
TwoChunksCompleted ==
    /\ stream.pc = "done"
    /\ events[Len(events)].type = "complete"
    /\ Len(ChunkContents(1)) = 2
    /\ ChunkContents(1)[1] # ChunkContents(1)[2]

\* C9: no step of stream_recommendations creates or modifies a recommendation,
\* whether the stream completes, fails or is cancelled; rows are written by the
\* blocking generate request only
StreamWritesNothing ==
    [][/\ lastOp'.kind = "stream" => recs' = recs
       /\ recs' # recs => lastOp'.kind = "generate"]_vars

\* a stream has completed with a parsed training text and has stored nothing
StreamCompletedUnsaved ==
    /\ stream.pc = "done"
    /\ events[Len(events)].type = "complete"
    /\ Truthy(events[Len(events)].insights.todays_training)
    /\ recs = <<>>

----------------------------------------------------------------------------
(* The compliance matcher on a day with several logged workouts *)

MaxLogged == 2

\* against the plan "30 min easy Run": a full match (32 min of running), a match
\* in type only, a match in duration only, and no match
LoggedWorkouts ==
    {[activity_type |-> "Running", duration_seconds |-> 1920],
     [activity_type |-> "Running", duration_seconds |-> 600],
     [activity_type |-> "yoga", duration_seconds |-> 1800],
     [activity_type |-> "yoga", duration_seconds |-> 600]}

NextMatch ==
    \/ Tick
    \/ /\ Len(recs) < MaxRecs
       /\ \E u \in GenUsers : GenerateRecommendations(u, ProviderOk(AiDraft), TRUE)
    \/ /\ Len(workouts) < MaxLogged
       /\ \E u \in GenUsers, w \in LoggedWorkouts :
            SyncWorkout(u, w.activity_type, now, w.duration_seconds)
    \/ \E u \in GenUsers : CheckSelect(u)
    \/ CheckCommit

SpecMatch == Init /\ [][NextMatch]_vars

----------------------------------------------------------------------------
(* Properties of the compliance matcher *)

\* the step is the matcher writing its result for the row it loaded
MatcherWrites(op) == op.kind = "check_compliance" /\ op.result = "ok"

\* the positions in ws of the workouts that match rec in type and in duration
FullMatches(rec, ws) ==
    {k \in 1..Len(ws) :
        /\ TypeMatch(rec.workout_type, workouts[ws[k]].activity_type)
        /\ DurationMatch(rec.duration_minutes, workouts[ws[k]].duration_seconds)}

\* the positions in ws of the workouts that match rec in type or in duration
AnyMatches(rec, ws) ==
    {k \in 1..Len(ws) :
        \/ TypeMatch(rec.workout_type, workouts[ws[k]].activity_type)
        \/ DurationMatch(rec.duration_minutes, workouts[ws[k]].duration_seconds)}

\* C11: when the day's workouts contain one that matches the recommendation in
\* type and within 20% in duration, at whatever position, the matcher answers
\* completed and links the first such workout
FirstFullMatchWins ==
    [][MatcherWrites(lastOp') =>
        LET ws == WorkoutsOn(chk.user, chk.day)
            F == FullMatches(Val(chk.loaded), ws)
        IN F # {} =>
            /\ lastOp'.body.status = COMPLETED
            /\ recs'[lastOp'.target].status = COMPLETED
            /\ recs'[lastOp'.target].actual_workout_id = Some(ws[MinOf(F)])]_vars

\* C12: the matcher answers skipped, linking no workout, exactly when the day has
\* no workouts; with workouts it answers completed or partial; when no workout
\* matches in type or in duration it answers partial and links no workout
SkippedIffNoWorkouts ==
    [][MatcherWrites(lastOp') =>
        LET ws == WorkoutsOn(chk.user, chk.day)
            row == recs'[lastOp'.target]
        IN /\ lastOp'.body.status = row.status
           /\ row.status = SKIPPED <=> ws = <<>>
           /\ ws # <<>> => row.status \in {COMPLETED, PARTIAL}
           /\ row.status = SKIPPED => row.actual_workout_id = None
           /\ (ws # <<>> /\ AnyMatches(Val(chk.loaded), ws) = {})
                => (row.status = PARTIAL /\ row.actual_workout_id = None)]_vars

\* the matcher went through two workouts that match in neither dimension and
\* answered partial without a link
TwoUnrelatedWorkoutsPartial ==
    /\ MatcherWrites(lastOp)
    /\ lastOp.body.status = PARTIAL
    /\ recs[lastOp.target].actual_workout_id = None
    /\ Len(WorkoutsOn(lastOp.caller, Day(recs[lastOp.target].recommendation_date))) = 2

\* C13: the matcher's read of the status and its write are one atomic step: when
\* it writes, the row is still pending; a status set by update_plan_status or
\* update_coaching_plan in the meantime is not overwritten
MatcherWriteAtomic ==
    [][MatcherWrites(lastOp') =>
        (recs[lastOp'.target].status # PENDING
            => recs'[lastOp'.target] = recs[lastOp'.target])]_vars

----------------------------------------------------------------------------
(* The plan tools editing the plans of a day *)

\* the updates of the agent, and one that names an unknown status next to a text
EditArgs ==
    UpdateArgs \cup
    {[NoUpdate EXCEPT !.todays_training = Some(<<N(45), W("min"), W("rest")>>),
                      !.status = Some("done")]}

EditIds == 1..MaxPlans

NextEdit ==
    \/ Tick
    \/ /\ Len(recs) < MaxPlans
       /\ \E u \in GenUsers : GenerateRecommendations(u, ProviderOk(AiDraft), TRUE)
    \/ \E cfg \in GenUsers, id \in EditIds, a \in EditArgs : UpdateCoachingPlan(cfg, id, a)

SpecEdit == Init /\ [][NextEdit]_vars

----------------------------------------------------------------------------
(* Properties of persistence and of the plan update tool *)

\* C14: when the commit of a generated recommendation fails, no row is left for
\* the call and the request is not answered as a success: every generate
\* request answered success has stored its recommendation
PersistFailureSurfaced ==
    [][(lastOp'.kind = "generate" /\ lastOp'.body.status = "success")
        => /\ Len(recs') = Len(recs) + 1
           /\ recs'[Len(recs')].user_id = lastOp'.caller]_vars

\* the columns of a recommendation update_coaching_plan can assign
PlanColumns == {UpdatableFields[k] : k \in 1..Len(UpdatableFields)} \cup {"status"}

\* the column value the tool stores for a supplied argument
Stored(f, arg) == IF f = "status" THEN Lower(Val(arg)) ELSE arg

\* the names in a sequence
Names(seq) == {seq[k] : k \in 1..Len(seq)}

\* C15: a successful update_coaching_plan sets each supplied field to the value
\* supplied, refreshes updated_at, reports exactly the supplied fields in
\* updated_fields, and leaves every other field and every other recommendation
\* as it was
UpdateChangesSuppliedOnly ==
    [][(lastOp'.kind = "update_coaching_plan" /\ lastOp'.result = "ok") =>
        \A a \in EditArgs :
        LET id == lastOp'.target
        IN  UpdateCoachingPlan(lastOp'.caller, id, a) =>
            /\ Len(recs') = Len(recs)
            /\ \A f \in PlanColumns :
                    recs'[id][f] = IF IsSome(a[f]) THEN Stored(f, a[f]) ELSE recs[id][f]
            /\ recs'[id].updated_at = now
            /\ \A f \in DOMAIN recs[id] \ (PlanColumns \cup {"updated_at"}) :
                    recs'[id][f] = recs[id][f]
            /\ Names(lastOp'.body.updated_fields) = {f \in PlanColumns : IsSome(a[f])}
            /\ Len(lastOp'.body.updated_fields) = Cardinality({f \in PlanColumns : IsSome(a[f])})
            /\ \A j \in 1..Len(recs) : j # id => recs'[j] = recs[j]]_vars

\* the second of two plans has had its text and type updated on a later day
SecondPlanEdited ==
    /\ lastOp.kind = "update_coaching_plan"
    /\ lastOp.result = "ok"
    /\ lastOp.body.updated_fields = <<"todays_training", "workout_type">>
    /\ Len(recs) = 2
    /\ lastOp.target = 2
    /\ recs[2].updated_at > recs[2].recommendation_date

\* C16: update_coaching_plan called by the owner with a status outside pending,
\* completed, skipped, partial answers an error and stores nothing, also of the
\* other fields supplied in the call
InvalidStatusStoresNothing ==
    [][lastOp'.kind = "update_coaching_plan" =>
        \A a \in EditArgs :
        LET id == lastOp'.target
        IN  (/\ UpdateCoachingPlan(lastOp'.caller, id, a)
             /\ id \in 1..Len(recs)
             /\ recs[id].user_id = lastOp'.caller
             /\ IsSome(a.status)
             /\ Lower(Val(a.status)) \notin RecommendationStatus)
            => (lastOp'.result = "invalid_status" /\ recs' = recs)]_vars

\* the owner's update with an unknown status was rejected on a later day than
\* the plan was written
InvalidStatusRejected ==
    /\ lastOp.kind = "update_coaching_plan"
    /\ lastOp.result = "invalid_status"
    /\ recs[lastOp.target].user_id = lastOp.caller
    /\ recs[lastOp.target].updated_at < now

----------------------------------------------------------------------------
(* Chat messages arriving on new and on existing sessions *)

ChatMessages == {"plan for today?", "my knee hurts"}

ChatUsers == {"u1"}

\* the turns on a thread that are at one of the given positions
TurnsOn(thread, pcs) ==
    {k \in 1..Len(chat.turns) : chat.turns[k].thread = thread /\ chat.turns[k].pc \in pcs}

\* a client learns a session's id from the answer to the message that created it
NextChat ==
    \/ Tick
    \/ /\ Len(chat.turns) < MaxTurns
       /\ \E u \in ChatUsers, sid \in {NoSession} \cup SessionIds, m \in ChatMessages :
            /\ sid = NoSession => Len(chat.sessions) < MaxSessions
            /\ sid \in 1..Len(chat.sessions) => TurnsOn(sid, {"done"}) # {}
            /\ SendMessage(u, sid, m)
    \/ \E k \in 1..MaxTurns : AgentReply(k)

SpecChat == Init /\ [][NextChat]_vars

----------------------------------------------------------------------------
(* Properties of the coaching chat *)

Serial(history) ==
    /\ Len(history) % 2 = 0
    /\ \A k \in 1..(Len(history) \div 2) :
            /\ history[2 * k - 1].role = "human"
            /\ history[2 * k] = Reply(SubSeq(history, 1, 2 * k - 1))

\* C18: once the turns on a session have all returned, concurrent or not, the
\* thread's history is that of some serial execution of them: it holds the
\* message and the answer of every turn, none inside another turn
ConcurrentTurnsSerialized ==
    \A s \in 1..Len(chat.sessions) :
        TurnsOn(s, {"running"}) = {} =>
            /\ Serial(chat.threads[s])
            /\ Len(chat.threads[s]) = 2 * Cardinality(TurnsOn(s, {"done"}))

----------------------------------------------------------------------------
(* The injury tools over the life of an injury *)

InjuryStatus == {"active", "recovering", "recovered", "chronic"}

\* an update of the pain level alone, or of the status
InjuryUpdates ==
    {[pain_level |-> Some(1), status |-> None]}
    \cup {[pain_level |-> None, status |-> Some(st)] : st \in InjuryStatus}

RECURSIVE TimelineEntries(_)
TimelineEntries(k) ==
    IF k = 0 THEN 0 ELSE Len(injuries[k].timeline) + TimelineEntries(k - 1)

NextInjury ==
    \/ Tick
    \/ /\ Len(injuries) < MaxInjuries
       /\ \E cfg \in GenUsers, p \in PainLevels : ReportInjury(cfg, p)
    \/ /\ TimelineEntries(Len(injuries)) < MaxInjuryUpdates
       /\ \E cfg \in GenUsers, id \in InjuryIds, up \in InjuryUpdates :
            UpdateInjuryStatus(cfg, id, up.pain_level, up.status)

SpecInjury == Init /\ [][NextInjury]_vars

----------------------------------------------------------------------------
(* Properties of the injury tools *)

\* C19: an injury is reported active, and no call moves a recovered injury back
\* to active or recovering, or a recovering injury back to active
InjuryStatusForward ==
    [][/\ \A i \in (Len(injuries) + 1)..Len(injuries') : injuries'[i].status = "active"
       /\ \A i \in 1..Len(injuries) :
            /\ injuries[i].status = "recovered"
                    => injuries'[i].status \notin {"active", "recovering"}
            /\ injuries[i].status = "recovering" => injuries'[i].status # "active"]_vars

\* C20: an injury's recovery date is null when it is reported, is set by the
\* update that first sets the status to recovered, and is never changed after
\* that, also by a second update to recovered; a recovered injury has a
\* recovery date
RecoveryDateSetOnce ==
    [][/\ \A i \in (Len(injuries) + 1)..Len(injuries') :
            injuries'[i].actual_recovery_date = None
       /\ \A i \in 1..Len(injuries) :
            /\ injuries[i].actual_recovery_date # None
                    => injuries'[i].actual_recovery_date = injuries[i].actual_recovery_date
            /\ (injuries[i].actual_recovery_date = None
                    /\ injuries'[i].actual_recovery_date # None)
                    => /\ injuries'[i].status = "recovered"
                       /\ injuries'[i].actual_recovery_date = Some(now)
       /\ \A i \in 1..Len(injuries') :
            injuries'[i].status = "recovered" => injuries'[i].actual_recovery_date # None]_vars

\* an injury recovered on one day was updated to recovered again on a later day
RecoveredTwice ==
    /\ lastOp.kind = "update_injury_status"
    /\ lastOp.result = "ok"
    /\ LET inj == injuries[lastOp.target]
       IN /\ Len(inj.timeline) = 2
          /\ inj.timeline[1].status = Some("recovered")
          /\ inj.timeline[2].status = Some("recovered")
          /\ inj.timeline[1].update_date < inj.timeline[2].update_date
          /\ inj.actual_recovery_date = Some(inj.timeline[1].update_date)

----------------------------------------------------------------------------
(* The generator on drafts of the provider with all kinds of training texts *)

\* an empty text, the usual plan, a cycling plan, a text naming walk before jog,
\* and a text with no keyword
TrainingTexts ==
    {<<>>,
     <<W("Hey"), W("Mike"), N(30), W("min"), W("easy"), W("Run"), W("Zone"), N(2),
       R(140, 150), W("BPM")>>,
     <<N(45), W("min"), W("cycling")>>,
     <<W("Walk"), W("then"), W("jog"), N(20), W("minutes")>>,
     <<W("stretch"), W("gently")>>}

\* the four required fields as the provider may fill them: any of them empty
Drafts ==
    {Draft(Some(t), Some(NutritionText), Some(RecoveryText), r) :
        t \in TrainingTexts, r \in {Some(<<>>), Some(<<W("VO2"), W("improving")>>)}}

NextDrafts ==
    \/ Tick
    \/ /\ Len(recs) < MaxRecs
       /\ \E u \in Users, d \in Drafts, c \in BOOLEAN :
            GenerateRecommendations(u, ProviderOk(d), c)
    \/ /\ Len(recs) < MaxRecs
       /\ \E u \in Users, c \in BOOLEAN : GenerateRecommendations(u, ProviderFail, c)

SpecDrafts == Init /\ [][NextDrafts]_vars

----------------------------------------------------------------------------
(* Properties of the response array, the extraction and the trends *)

\* C21: the recommendations array of the blocking generate request has exactly
\* four entries, titled Today's Workout, Nutrition & Fueling, Recovery Protocol,
\* Coach's Analysis in this order, also when a field's text is empty
FourEntriesAlways ==
    lastOp.kind = "generate" =>
        /\ Len(lastOp.body.recommendations) = 4
        /\ \A k \in 1..4 : lastOp.body.recommendations[k].title = Titles[k]

\* the keywords of each workout type, in the order of priority
KeywordsInOrder ==
    << [type |-> "run",      words |-> {"run", "jog", "running", "jogging"}],
       [type |-> "walk",     words |-> {"walk", "walking"}],
       [type |-> "cycling",  words |-> {"cycl", "cycling", "bike", "biking"}],
       [type |-> "rest",     words |-> {"rest", "recovery"}],
       [type |-> "interval", words |-> {"interval", "hiit"}] >>

\* the positions in KeywordsInOrder of the types with a keyword in the text
TypesNamed(text) ==
    {k \in 1..Len(KeywordsInOrder) :
        \E i \in 1..Len(text) :
            IsWord(text[i]) /\ Lower(text[i].w) \in KeywordsInOrder[k].words}

\* C23: the workout type stored for a generated text is the first type, in the
\* order run, walk, cycling, rest, interval, that has a keyword in the text,
\* whatever the case and the position of the keyword, and null exactly when the
\* text has no keyword; duration, zone and heart-rate range are null exactly
\* when their pattern does not occur
ExtractionFollowsKeywords ==
    [][lastOp'.kind = "generate" =>
        \A i \in (Len(recs) + 1)..Len(recs') :
            LET row == recs'[i]
                text == Val(row.todays_training)
            IN /\ row.workout_type =
                    IF TypesNamed(text) = {} THEN None
                    ELSE Some(KeywordsInOrder[MinOf(TypesNamed(text))].type)
               /\ row.duration_minutes = None <=> DurationAt(text) = {}
               /\ row.intensity_zone = None <=> ZoneAt(text) = {}
               /\ row.heart_rate_range = None <=> RangeAt(text) = {}]_vars

\* C24: for any number of VO2, heart-rate and weight readings the trend
\* computation does not raise, yields a trend for a metric exactly when the
\* context holds at least two readings of it, and context aggregation does not
\* fail
TrendsNeverRaise ==
    \A u \in Users :
        LET vo2_data == Take3(health[u].vo2)
            hr_data == Take3(health[u].hr)
            weight_history == Take3(health[u].weight)
            t == CalculateTrends(vo2_data, hr_data, weight_history)
        IN /\ ~t.raised
           /\ IsSome(t.trends.vo2_max) <=> Len(vo2_data) >= 2
           /\ IsSome(t.trends.heart_rate) <=> Len(hr_data) >= 2
           /\ IsSome(t.trends.weight) <=> Len(weight_history) >= 2
           /\ ~GatherUserContext(u).raised

\* C25: the structured fields of every stored recommendation are those the
\* extraction yields for its current training text
StructuredMatchesText ==
    \A i \in 1..Len(recs) :
        LET details == ExtractWorkoutDetails(recs[i].todays_training)
        IN /\ recs[i].workout_type = details.workout_type
           /\ recs[i].duration_minutes = details.duration_minutes
           /\ recs[i].intensity_zone = details.intensity_zone
           /\ recs[i].heart_rate_range = details.heart_rate_range

----------------------------------------------------------------------------
(* Batches of samples synced from the device *)

MaxBatches == 2

SyncProvider == "apple_healthkit"

SourceIds == {None, Some("a"), Some("b")}

\* the minutes the samples are stamped with
Minutes == {0, 1}

\* the samples of a batch, one of them with a timestamp that does not parse
SyncSamples ==
    {[source_record_id |-> s, at |-> t, well_formed |-> TRUE] : s \in SourceIds, t \in Minutes}
        \cup {[source_record_id |-> Some("a"), at |-> 0, well_formed |-> FALSE]}

SyncBatches ==
    {<<x>> : x \in SyncSamples} \cup {<<x, y>> : x \in SyncSamples, y \in SyncSamples}

NextSync ==
    /\ Len(synced.ingest_batches) < MaxBatches
    /\ \E kind \in SyncKinds, u \in GenUsers, samples \in SyncBatches :
            SyncBatch(kind, u, SyncProvider, samples)

SpecSync == Init /\ [][NextSync]_vars

\* the rows of a table under a user, a provider and a source id
RowsWith(table, user_id, provider, source_record_id) ==
    {i \in 1..Len(table) :
        /\ table[i].user_id = user_id
        /\ table[i].provider = provider
        /\ table[i].source_record_id = source_record_id}

\* C22: no two rows of a data kind share (user_id, provider, source_record_id)
\* with a source id; a batch whose rows all carry source ids that are stored
\* already stores no row and reports duplicates_skipped equal to its size; the
\* rows of a well-formed batch that carry no source id are all stored, with no
\* duplicate check
SyncDedupKept ==
    [][lastOp'.kind = "sync_batch" =>
        \A kind \in SyncKinds, u \in GenUsers, samples \in SyncBatches :
            (kind = lastOp'.body.data_kind /\ SyncBatch(kind, u, SyncProvider, samples)) =>
                LET Ks == 1..Len(samples)
                    counts == lastOp'.body
                IN /\ \A d \in SyncKinds, s \in SourceIds \ {None} :
                        Cardinality(RowsWith(TableOf(d)', u, SyncProvider, s)) <= 1
                   /\ (\A k \in Ks :
                            /\ HasSourceId(samples[k])
                            /\ RowsWith(TableOf(kind), u, SyncProvider,
                                        samples[k].source_record_id) # {}) =>
                        /\ lastOp'.result = "ok"
                        /\ TableOf(kind)' = TableOf(kind)
                        /\ counts.total_stored = 0
                        /\ counts.duplicates_skipped = Len(samples)
                   /\ ((\A k \in Ks : samples[k].well_formed)
                            /\ (\E k \in Ks : samples[k].source_record_id = None)) =>
                        /\ lastOp'.result = "ok"
                        /\ Cardinality({i \in (Len(TableOf(kind)) + 1)..Len(TableOf(kind)') :
                                            TableOf(kind)'[i].source_record_id = None})
                            = Cardinality({k \in Ks : samples[k].source_record_id = None})]_vars

\* C30: a well-formed batch with two rows of the same source id succeeds, leaves
\* exactly one row under each of its source ids, and reports total_stored, the
\* number of rows it added, and duplicates_skipped summing to total_received,
\* for workouts as for heart rate, steps and VO2
DuplicateInBatchSkipped ==
    [][lastOp'.kind = "sync_batch" =>
        \A kind \in SyncKinds, u \in GenUsers, samples \in SyncBatches :
            (/\ kind = lastOp'.body.data_kind
             /\ SyncBatch(kind, u, SyncProvider, samples)
             /\ \A k \in 1..Len(samples) : samples[k].well_formed
             /\ \E j, k \in 1..Len(samples) :
                    /\ j < k
                    /\ HasSourceId(samples[j])
                    /\ samples[j].source_record_id = samples[k].source_record_id) =>
                LET counts == lastOp'.body
                IN /\ lastOp'.result = "ok"
                   /\ counts.total_stored + counts.duplicates_skipped = counts.total_received
                   /\ Len(TableOf(kind)') = Len(TableOf(kind)) + counts.total_stored
                   /\ \A k \in 1..Len(samples) :
                        Cardinality(RowsWith(TableOf(kind)', u, SyncProvider,
                                             samples[k].source_record_id)) = 1]_vars

----------------------------------------------------------------------------
(* Chat messages, blocking and streaming, of two users *)

MaxStreams == 2

MaxEvents == 3

StreamMessages == {"plan for today?"}

\* the events the agent has handed to the runs so far
RECURSIVE EventsYielded(_)
EventsYielded(r) == IF r = 0 THEN 0 ELSE Len(sse[r].out) + EventsYielded(r - 1)

\* u1 converses, blocking and streaming, each message answered in full; u2 sends
\* messages under the session ids it can guess
NextSessions ==
    \/ Tick
    \/ /\ Len(chat.turns) < MaxTurns
       /\ \E u \in Users, sid \in {NoSession} \cup SessionIds, m \in StreamMessages :
            /\ sid = NoSession => (u \in ChatUsers /\ Len(chat.sessions) < MaxSessions)
            /\ sid \in 1..Len(chat.sessions) => TurnsOn(sid, {"done"}) # {}
            /\ SendMessage(u, sid, m)
    \/ \E k \in 1..MaxTurns : AgentReply(k)
    \/ /\ Len(chat.turns) < MaxTurns
       /\ Len(sse) < MaxStreams
       /\ \E u \in Users, sid \in {NoSession} \cup SessionIds, m \in StreamMessages :
            /\ sid = NoSession => (u \in ChatUsers /\ Len(chat.sessions) < MaxSessions)
            /\ sid \in 1..Len(chat.sessions) => TurnsOn(sid, {"done"}) # {}
            /\ StreamMessage(u, sid, m, TRUE)
    \/ \E r \in 1..MaxStreams : StreamDone(r)

SpecSessions == Init /\ [][NextSessions]_vars

\* the streams of one user, event by event
NextChatStream ==
    \/ /\ Len(sse) < MaxStreams
       /\ \E u \in ChatUsers \cup {NoUser}, sid \in {NoSession} \cup SessionIds,
             m \in StreamMessages, commitOk \in BOOLEAN :
            /\ sid = NoSession => Len(chat.sessions) < MaxSessions
            /\ sid \in 1..Len(chat.sessions) => TurnsOn(sid, {"done"}) # {}
            /\ StreamMessage(u, sid, m, commitOk)
    \/ \E r \in 1..MaxStreams, e \in AgentEvents :
            r \in 1..Len(sse) /\ EventsYielded(Len(sse)) < MaxEvents /\ AgentEvent(r, e)
    \/ \E r \in 1..MaxStreams : StreamDone(r)
    \/ \E r \in 1..MaxStreams : StreamError(r)
    \/ \E r \in 1..MaxStreams : StreamCancelled(r)

SpecChatStream == Init /\ [][NextChatStream]_vars

\* the session id names no session of the user
NotOwnSession(sid, u) == sid \notin 1..Len(chat.sessions) \/ chat.sessions[sid].user_id # u

\* C26: a message, blocking or streaming, with a session id that names no
\* session or another user's session is answered session-not-found; no session
\* is created or modified, no turn of the agent starts, no thread and no row of
\* the tools' tables changes, and the stream yields the error alone
ForeignSessionRejected ==
    [][lastOp'.kind \in {"send_message", "stream_message"} =>
        \A u \in Users, sid \in SessionIds, m \in StreamMessages, commitOk \in BOOLEAN :
            (/\ u = lastOp'.caller
             /\ NotOwnSession(sid, u)
             /\ SendMessage(u, sid, m) \/ StreamMessage(u, sid, m, commitOk)) =>
                /\ lastOp'.result = "not_found"
                /\ chat' = chat
                /\ UNCHANGED <<profiles, health, recs, workouts, injuries>>
                /\ lastOp'.kind = "send_message" => sse' = sse
                /\ lastOp'.kind = "stream_message" =>
                        sse' = Append(sse, Run(u, sid, 0,
                                    <<ChatEvent("error", "Session not found")>>, "closed"))]_vars

\* a user has streamed a message to the session of another user, on a later day
\* than the session was last active
ForeignSessionStreamed ==
    /\ lastOp.kind = "stream_message"
    /\ lastOp.result = "not_found"
    /\ lastOp.target \in 1..Len(chat.sessions)
    /\ chat.sessions[lastOp.target].user_id # lastOp.caller
    /\ chat.sessions[lastOp.target].last_active_at < now

\* the positions of the terminal events in the events of a run
Terminals(out) == {i \in 1..Len(out) : out[i].type \in {"done", "error"}}

\* C27: a run of the chat stream that has ended without being cancelled has
\* exactly one terminal event, done or error, and it is its last event; done
\* carries the session id and is there only if the agent's event stream was
\* exhausted without an exception, error is there otherwise; a run that has not
\* ended has no terminal event, and a run that has ended yields nothing more
ChatStreamTerminal ==
    [][\A r \in 1..Len(sse') :
        LET run == sse'[r]
            out == run.out
        IN /\ run.pc = "closed" =>
                /\ Terminals(out) = {Len(out)}
                /\ out[Len(out)].type = "done" <=>
                        (run.turn # 0 /\ chat'.turns[run.turn].pc = "done")
                /\ out[Len(out)].type = "done" => out[Len(out)].data = run.session_id
           /\ run.pc = "open" => Terminals(out) = {}
           /\ (r <= Len(sse) /\ sse[r].pc = "closed") => run = sse[r]]_vars

\* a run has ended with done after a token and a tool event, and another with
\* error after a token
StreamsDoneAndFailed ==
    \E r, q \in 1..Len(sse) :
        /\ sse[r].pc = "closed"
        /\ Len(sse[r].out) = 3
        /\ sse[r].out[1].type = "token"
        /\ sse[r].out[2].type = "tool_end"
        /\ sse[r].out[3].type = "done"
        /\ sse[q].pc = "closed"
        /\ Len(sse[q].out) = 2
        /\ sse[q].out[1].type = "token"
        /\ sse[q].out[2].type = "error"

----------------------------------------------------------------------------
(* The matcher on workouts without an activity type and plans without a type *)

\* a training text that names no workout type
UntypedDraft ==
    Draft(Some(<<W("stretch"), W("gently"), N(30), W("min")>>), Some(NutritionText),
          Some(RecoveryText), Some(<<W("VO2"), W("improving")>>))

\* against the plan "30 min easy Run": workouts with an empty activity type, of a
\* matching and of another duration, a run of no duration, and a full match
UntypedWorkouts ==
    {[activity_type |-> "", duration_seconds |-> 1920],
     [activity_type |-> "", duration_seconds |-> 600],
     [activity_type |-> "Running", duration_seconds |-> 0],
     [activity_type |-> "Running", duration_seconds |-> 1920]}

NextUntyped ==
    \/ Tick
    \/ /\ Len(recs) < MaxRecs
       /\ \E u \in GenUsers, d \in {AiDraft, UntypedDraft} :
            GenerateRecommendations(u, ProviderOk(d), TRUE)
    \/ /\ Len(workouts) < MaxLogged
       /\ \E u \in GenUsers, w \in UntypedWorkouts :
            SyncWorkout(u, w.activity_type, now, w.duration_seconds)
    \/ \E u \in GenUsers : CheckSelect(u)
    \/ CheckCommit

SpecUntyped == Init /\ [][NextUntyped]_vars

\* C28: when the matcher answers completed, the linked workout is one of the
\* day's workouts, has a non-empty activity type of which the recommended type
\* is a substring or the other way round, and a non-zero duration within 20% of
\* the recommended one; a recommendation without type or without duration is
\* never completed; a workout with an empty activity type is never linked for
\* its type
CompletedIsRealMatch ==
    [][MatcherWrites(lastOp') =>
        LET ws == WorkoutsOn(chk.user, chk.day)
            rec == Val(chk.loaded)
            row == recs'[lastOp'.target]
        IN /\ row.status = COMPLETED =>
                /\ IsSome(rec.workout_type)
                /\ IsSome(rec.duration_minutes)
                /\ IsSome(row.actual_workout_id)
                /\ \E k \in 1..Len(ws) :
                        LET w == workouts[ws[k]]
                        IN /\ ws[k] = Val(row.actual_workout_id)
                           /\ w.activity_type # ""
                           /\ TypeMatch(rec.workout_type, w.activity_type)
                           /\ w.duration_seconds # 0
                           /\ DurationMatch(rec.duration_minutes, w.duration_seconds)
           /\ (row.status \in {COMPLETED, PARTIAL} /\ IsSome(row.actual_workout_id)
                    /\ workouts[Val(row.actual_workout_id)].activity_type = "") =>
                /\ row.status = PARTIAL
                /\ DurationMatch(rec.duration_minutes,
                                 workouts[Val(row.actual_workout_id)].duration_seconds)]_vars

----------------------------------------------------------------------------
(* The matcher on a day with two plans *)

NextTwoPlans ==
    \/ Tick
    \/ /\ Len(recs) < MaxPlans
       /\ \E u \in GenUsers : GenerateRecommendations(u, ProviderOk(AiDraft), TRUE)
    \/ /\ Len(workouts) < MaxWorkouts
       /\ \E u \in GenUsers, w \in LoggedWorkouts :
            SyncWorkout(u, w.activity_type, now, w.duration_seconds)
    \/ \E u \in GenUsers : CheckSelect(u)
    \/ CheckCommit

SpecTwoPlans == Init /\ [][NextTwoPlans]_vars

\* C29: a step of check_recommendation_compliance changes at most one
\* recommendation and adds none; a call for a user with two or more pending
\* recommendations dated yesterday answers checked=false with an error at its
\* first query and changes nothing, so that all of them stay pending
TwoPendingChangeNothing ==
    [][lastOp'.kind \in {"check_select", "check_compliance"} =>
        /\ Len(recs') = Len(recs)
        /\ Cardinality({i \in 1..Len(recs) : recs'[i] # recs[i]}) <= 1
        /\ (chk.pc = "idle"
                /\ Cardinality(PendingOn(recs, lastOp'.caller, Day(now) - 1)) >= 2) =>
            /\ lastOp'.kind = "check_compliance"
            /\ lastOp'.result = "error"
            /\ lastOp'.body.status = "unchecked"
            /\ chk' = Idle
            /\ recs' = recs]_vars

\* the matcher has answered with an error for a user with two pending plans of
\* yesterday and a workout of that day
TwoPendingRefused ==
    /\ lastOp.kind = "check_compliance"
    /\ lastOp.result = "error"
    /\ Cardinality(PendingOn(recs, lastOp.caller, Day(now) - 1)) = 2
    /\ WorkoutsOn(lastOp.caller, Day(now) - 1) # <<>>

============================================================================
